---------------------------- MODULE Spec2Model ----------------------------
(***************************************************************************)
(* A model of the t-spline library: the half-edge T-mesh store, the seed   *)
(* topologies, local knot inference, the cubic basis kernel, the rational  *)
(* evaluator, the parallel tessellator and the TSpline wrapper.            *)
(*                                                                         *)
(* Scalars (f64 / the generic Numeric) are exact rationals <<num, den>>    *)
(* with den > 0, kept in lowest terms.  Every value the seed meshes and    *)
(* the sampled grids produce is a small dyadic or triadic rational, for    *)
(* which the f64 operations of the source are exact or differ from the     *)
(* exact value by far less than any tolerance the code compares against.   *)
(* Handles (VertID, EdgeID, FaceID) are the 0-based table indices of the   *)
(* source; tables are functions on 0..len-1.                               *)
(***************************************************************************)
EXTENDS Integers, Sequences, FiniteSets, TLC

(* Option::None for an optional handle; handles themselves are >= 0. *)
None == -1

(* The value a panicking call (index out of bounds) produces instead of a result. *)
Panic == "panic"

-----------------------------------------------------------------------------
(* Scalar arithmetic *)

Abs(x) == IF x < 0 THEN -x ELSE x

RECURSIVE GCD(_, _)
GCD(a, b) == IF b = 0 THEN a ELSE GCD(b, a % b)

(* n / d divided through by g, with the sign carried by the numerator. *)
Reduce(n, d, g) == IF d < 0 THEN <<-(n \div g), -(d \div g)>> ELSE <<n \div g, d \div g>>

R(n, d) == Reduce(n, d, GCD(Abs(n), Abs(d)))

Zero == <<0, 1>>
One == <<1, 1>>
Half == <<1, 2>>
RInt(n) == <<n, 1>>

(* a + b over the least common denominator, g the gcd of the denominators. *)
AddOver(a, b, g) == R(a[1] * (b[2] \div g) + b[1] * (a[2] \div g), (a[2] \div g) * b[2])

RAdd(a, b) ==
    IF a[1] = 0 THEN b
    ELSE IF b[1] = 0 THEN a
    ELSE IF a[2] = b[2] THEN R(a[1] + b[1], a[2])
    ELSE AddOver(a, b, GCD(a[2], b[2]))

RNeg(a) == <<-a[1], a[2]>>
RSub(a, b) == RAdd(a, RNeg(b))

RMul(a, b) ==
    IF a[1] = 0 \/ b[1] = 0 THEN Zero ELSE R(a[1] * b[1], a[2] * b[2])

(* b is never zero where the source divides: every division is guarded. *)
RDiv(a, b) == RMul(a, IF b[1] < 0 THEN <<-b[2], -b[1]>> ELSE <<b[2], b[1]>>)

RAbs(a) == <<Abs(a[1]), a[2]>>
RLt(a, b) == a[1] * b[2] < b[1] * a[2]
RLe(a, b) == a[1] * b[2] <= b[1] * a[2]
RGt(a, b) == RLt(b, a)
RGe(a, b) == RLe(b, a)

(* Numeric::max / Numeric::min *)
RMax(a, b) == IF RGt(a, b) THEN a ELSE b
RMin(a, b) == IF RLt(a, b) THEN a ELSE b

(* n / d > 10^-k and n / d < 10^-k for n, d > 0, without forming 10^k:      *)
(* n * 10^k > d  <=>  n * 10^(k-1) > d \div 10, and                         *)
(* n * 10^k < d  <=>  n * 10^(k-1) < (d + 9) \div 10.                        *)
RECURSIVE GtScaled(_, _, _)
GtScaled(n, d, k) == IF k = 0 \/ n > d THEN n > d ELSE GtScaled(n, d \div 10, k - 1)

RECURSIVE LtScaled(_, _, _)
LtScaled(n, d, k) == IF k = 0 \/ n >= d THEN n < d ELSE LtScaled(n, (d + 9) \div 10, k - 1)

(* x > 1e-k  (x any sign) *)
GtTol(x, k) == x[1] > 0 /\ GtScaled(x[1], x[2], k)
(* x < 1e-k  (x any sign) *)
LtTol(x, k) == x[1] <= 0 \/ LtScaled(x[1], x[2], k)
(* x < -1e-k *)
LtNegTol(x, k) == GtTol(RNeg(x), k)

-----------------------------------------------------------------------------
(* Tables *)

TLen(tbl) == Cardinality(DOMAIN tbl)
EmptyTable == [i \in {} |-> None]
Push(tbl, x) == [i \in 0..TLen(tbl) |-> IF i \in DOMAIN tbl THEN tbl[i] ELSE x]

(* TMesh::default *)
EmptyMesh == [vertices |-> EmptyTable, edges |-> EmptyTable, faces |-> EmptyTable]

ControlPoint(x, y, z, w, s, t, out, isT) ==
    [geometry |-> <<x, y, z, w>>, uv |-> [s |-> s, t |-> t],
     outgoing_edge |-> out, is_t_junction |-> isT]

HalfEdge(origin, next, prev, twin, face, interval, dir) ==
    [origin |-> origin, next |-> next, prev |-> prev, twin |-> twin,
     face |-> face, knot_interval |-> interval, direction |-> dir]

Face(e) == [edge |-> e]

-----------------------------------------------------------------------------
(* Seed constructors *)

(* add_edge with the next and prev handles of the new half-edge exchanged. *)
AddEdgeSwapped(m, c) ==
    [m EXCEPT
        !.edges = Push(@, HalfEdge(c[1], c[3], c[2], c[4], c[5], c[7], c[6])),
        !.vertices = IF @[c[1]].outgoing_edge = None
                     THEN [@ EXCEPT ![c[1]].outgoing_edge = TLen(m.edges)]
                     ELSE @]

(* The add_edge closure of the seed constructors: push the half-edge and   *)
(* make it the origin's outgoing edge when the origin has none yet.        *)
AddEdge(m, c) ==
    LET id == TLen(m.edges)
        origin == c[1]
    IN  [m EXCEPT
            !.edges = Push(@, HalfEdge(origin, c[2], c[3], c[4], c[5], c[7], c[6])),
            !.vertices = IF @[origin].outgoing_edge = None
                         THEN [@ EXCEPT ![origin].outgoing_edge = id]
                         ELSE @]

RECURSIVE AddEdges(_, _, _)
AddEdges(m, calls, i) ==
    IF i > Len(calls) THEN m ELSE AddEdges(AddEdge(m, calls[i]), calls, i + 1)

RECURSIVE PushAll(_, _, _)
PushAll(tbl, xs, i) == IF i > Len(xs) THEN tbl ELSE PushAll(Push(tbl, xs[i]), xs, i + 1)

UnitSquareCoords == <<<<Zero, Zero>>, <<One, Zero>>, <<One, One>>, <<Zero, One>>>>

new_unit_square ==
    LET verts == [i \in 0..3 |->
                    ControlPoint(UnitSquareCoords[i + 1][1], UnitSquareCoords[i + 1][2],
                                 Zero, One,
                                 UnitSquareCoords[i + 1][1], UnitSquareCoords[i + 1][2],
                                 i, FALSE)]
        inner == [i \in 0..3 |->
                    HalfEdge(i, (i + 1) % 4, (i + 3) % 4, i + 4, 0, One,
                             IF i % 2 = 0 THEN "S" ELSE "T")]
        outer == [i \in 0..3 |->
                    HalfEdge((i + 1) % 4, ((i + 3) % 4) + 4, ((i + 1) % 4) + 4, i, None, One,
                             IF i % 2 = 0 THEN "S" ELSE "T")]
    IN  [vertices |-> verts,
         edges |-> [i \in 0..7 |-> IF i < 4 THEN inner[i] ELSE outer[i - 4]],
         faces |-> Push(EmptyTable, Face(0))]

RoundedCubeVerts ==
    << <<0, 1, -1, -1, -1>>, <<1, 1, -1, -1, 1>>, <<2, 1, 1, -1, 1>>, <<3, 1, 1, -1, -1>>,
       <<4, 1, -1, -1, -1>>, <<0, 2, -1, 1, -1>>, <<1, 2, -1, 1, 1>>, <<2, 2, 1, 1, 1>>,
       <<3, 2, 1, 1, -1>>, <<4, 2, -1, 1, -1>>, <<1, 0, -1, -1, -1>>, <<2, 0, 1, -1, -1>>,
       <<1, 3, -1, 1, -1>>, <<2, 3, 1, 1, -1>> >>

RoundedCubeEdges ==
    << <<0, 1, 3, None, 0, "S", One>>,   <<1, 2, 0, 7, 0, "T", One>>,
       <<6, 3, 1, None, 0, "S", One>>,   <<5, 0, 2, None, 0, "T", One>>,
       <<1, 5, 7, 18, 1, "S", One>>,     <<2, 6, 4, 11, 1, "T", One>>,
       <<7, 7, 5, 20, 1, "S", One>>,     <<6, 4, 6, 1, 1, "T", One>>,
       <<2, 9, 11, None, 2, "S", One>>,  <<3, 10, 8, 15, 2, "T", One>>,
       <<8, 11, 9, None, 2, "S", One>>,  <<7, 8, 10, 5, 2, "T", One>>,
       <<3, 13, 15, None, 3, "S", One>>, <<4, 14, 12, None, 3, "T", One>>,
       <<9, 15, 13, None, 3, "S", One>>, <<8, 12, 14, 9, 3, "T", One>>,
       <<10, 17, 19, None, 4, "S", One>>, <<11, 18, 16, None, 4, "T", One>>,
       <<2, 19, 17, 4, 4, "S", One>>,    <<1, 16, 18, None, 4, "T", One>>,
       <<6, 21, 23, 6, 5, "S", One>>,    <<7, 22, 20, None, 5, "T", One>>,
       <<13, 23, 21, None, 5, "S", One>>, <<12, 20, 22, None, 5, "T", One>> >>

new_rounded_cube ==
    LET verts == [i \in 0..13 |->
                    LET r == RoundedCubeVerts[i + 1]
                    IN  ControlPoint(RInt(r[3]), RInt(r[4]), RInt(r[5]), One,
                                     RInt(r[1]), RInt(r[2]), None, FALSE)]
        m == AddEdges([EmptyMesh EXCEPT !.vertices = verts], RoundedCubeEdges, 1)
    IN  [m EXCEPT !.faces = [i \in 0..5 |-> Face(i * 4)]]

TJunctionCoords ==
    << <<0, 0>>, <<1, 0>>, <<2, 0>>, <<1, 1>>, <<2, 1>>, <<0, 2>>, <<1, 2>>, <<2, 2>> >>

TJunctionEdges ==
    << <<0, 1, 4, 13, 0, "S", One>>,  <<1, 2, 0, 8, 0, "T", One>>,
       <<3, 3, 1, 12, 0, "T", One>>,  <<6, 4, 2, 18, 0, "S", One>>,
       <<5, 0, 3, 19, 0, "T", One>>,
       <<1, 6, 8, 14, 1, "S", One>>,  <<2, 7, 5, 15, 1, "T", One>>,
       <<4, 8, 6, 9, 1, "S", One>>,   <<3, 5, 7, 1, 1, "T", One>>,
       <<3, 10, 12, 7, 2, "S", One>>, <<4, 11, 9, 16, 2, "T", One>>,
       <<7, 12, 10, 17, 2, "S", One>>, <<6, 9, 11, 2, 2, "T", One>>,
       <<1, 19, 14, 0, None, "S", One>>,  <<2, 13, 15, 5, None, "S", One>>,
       <<4, 14, 16, 6, None, "T", One>>,  <<7, 15, 17, 10, None, "T", One>>,
       <<6, 16, 18, 11, None, "S", One>>, <<5, 17, 19, 3, None, "S", One>>,
       <<0, 18, 13, 4, None, "T", One>> >>

new_t_junction ==
    LET verts == [i \in 0..7 |->
                    LET r == TJunctionCoords[i + 1]
                    IN  ControlPoint(RInt(r[1]), RInt(r[2]), Zero, One,
                                     RInt(r[1]), RInt(r[2]), None, i = 3)]
        m == AddEdges([EmptyMesh EXCEPT !.vertices = verts], TJunctionEdges, 1)
    IN  [m EXCEPT !.faces = PushAll(EmptyTable, <<Face(0), Face(5), Face(9)>>, 1)]

(* (s, t, x, y, z, w) of new_simple; s, t and z in halves. *)
SimpleCoords ==
    << <<Zero, Zero, 0, 0, Zero>>, <<Half, Zero, 2, 0, Half>>, <<One, Zero, 4, 0, Zero>>,
       <<Zero, Half, 0, 2, Half>>, <<Half, Half, 2, 2, RInt(-1)>>, <<One, Half, 4, 2, Half>>,
       <<Zero, One, 0, 4, Zero>>,  <<One, One, 4, 4, Zero>> >>

SimpleEdges ==
    << <<0, 1, 3, 13, 0, "S", Half>>,  <<1, 2, 0, 7, 0, "T", Half>>,
       <<4, 3, 1, 8, 0, "S", Half>>,   <<3, 0, 2, 14, 0, "T", Half>>,
       <<1, 5, 7, 19, 1, "S", Half>>,  <<2, 6, 4, 18, 1, "T", Half>>,
       <<5, 7, 5, 9, 1, "S", Half>>,   <<4, 4, 6, 1, 1, "T", Half>>,
       <<3, 9, 12, 2, 2, "S", Half>>,  <<4, 10, 8, 6, 2, "S", Half>>,
       <<5, 11, 9, 17, 2, "T", Half>>, <<7, 12, 10, 16, 2, "S", One>>,
       <<6, 8, 11, 15, 2, "T", Half>>,
       <<1, 14, 19, 0, None, "S", Half>>,  <<0, 15, 13, 3, None, "T", Half>>,
       <<3, 16, 14, 12, None, "T", Half>>, <<6, 17, 15, 11, None, "S", One>>,
       <<7, 18, 16, 10, None, "T", Half>>, <<5, 19, 17, 5, None, "T", Half>>,
       <<2, 13, 18, 4, None, "S", Half>> >>

SimpleVertsAndEdges ==
    LET verts == [i \in 0..7 |->
                    LET r == SimpleCoords[i + 1]
                    IN  ControlPoint(RInt(r[3]), RInt(r[4]), r[5], One,
                                     r[1], r[2], None, i = 4)]
    IN  AddEdges([EmptyMesh EXCEPT !.vertices = verts], SimpleEdges, 1)

(* new_simple of the t_spline crate: two faces are pushed. *)
new_simple ==
    [SimpleVertsAndEdges EXCEPT !.faces = PushAll(EmptyTable, <<Face(0), Face(4)>>, 1)]

(* new_simple of the earlier single-crate layout: three faces are pushed. *)
new_simple_v1 ==
    [SimpleVertsAndEdges EXCEPT
        !.faces = PushAll(EmptyTable, <<Face(0), Face(4), Face(8)>>, 1)]

Seeds == {"unit_square", "t_junction", "simple", "rounded_cube"}

SeedMesh(name) ==
    CASE name = "unit_square" -> new_unit_square
      [] name = "t_junction" -> new_t_junction
      [] name = "simple" -> new_simple
      [] name = "rounded_cube" -> new_rounded_cube

-----------------------------------------------------------------------------
(* Results of calls that may yield nothing, panic or never return *)

Some(x) == [tag |-> "some", val |-> x]
NoneV == [tag |-> "none"]
PanicV == [tag |-> Panic]
DivergeV == [tag |-> "diverge"]
IsSome(r) == r.tag = "some"

-----------------------------------------------------------------------------
(* Half-edge topology store *)

Coord(uv, axis) == IF axis = "S" THEN uv.s ELSE uv.t
OtherCoord(uv, axis) == IF axis = "S" THEN uv.t ELSE uv.s

(* The face walk stepping to prev instead of next. *)
RECURSIVE FaceEdgesLoopPrev(_, _, _, _)
FaceEdgesLoopPrev(m, start_edge, curr, edges) ==
    IF m.edges[curr].prev \notin DOMAIN m.edges THEN PanicV
    ELSE IF m.edges[curr].prev = start_edge THEN Some(Append(edges, curr))
    ELSE IF Len(edges) >= TLen(m.edges) THEN DivergeV
    ELSE FaceEdgesLoopPrev(m, start_edge, m.edges[curr].prev, Append(edges, curr))

(* The loop of face_edges: push curr, step to next, stop when the start recurs. *)
(* A walk longer than the edge table never meets the start again.               *)
RECURSIVE FaceEdgesLoop(_, _, _, _)
FaceEdgesLoop(m, start_edge, curr, edges) ==
    IF m.edges[curr].next \notin DOMAIN m.edges THEN PanicV
    ELSE IF m.edges[curr].next = start_edge THEN Some(Append(edges, curr))
    ELSE IF Len(edges) >= TLen(m.edges) THEN DivergeV
    ELSE FaceEdgesLoop(m, start_edge, m.edges[curr].next, Append(edges, curr))

face_edges(m, face_id) ==
    IF face_id \notin DOMAIN m.faces THEN PanicV
    ELSE IF m.faces[face_id].edge \notin DOMAIN m.edges THEN PanicV
    ELSE FaceEdgesLoop(m, m.faces[face_id].edge, m.faces[face_id].edge, <<>>)

(* The test of one spoke: its destination lies on the ray, on the wanted side. *)
OnRay(v, dest_v, axis, positive) ==
    /\ LtTol(RAbs(RSub(OtherCoord(dest_v.uv, axis), OtherCoord(v.uv, axis))), 12)
    /\ IF positive
       THEN GtTol(RSub(Coord(dest_v.uv, axis), Coord(v.uv, axis)), 12)
       ELSE LtNegTol(RSub(Coord(dest_v.uv, axis), Coord(v.uv, axis)), 12)

(* The loop of find_next_vertex_in_direction over the spokes e -> twin(prev(e)). *)
RECURSIVE FindNextLoop(_, _, _, _, _, _)
FindNextLoop(m, v_id, axis, positive, curr_e_id, steps) ==
    LET edge == m.edges[curr_e_id]
        nxt == m.edges[edge.prev].twin
    IN  IF edge.twin = None THEN NoneV
        ELSE IF OnRay(m.vertices[v_id], m.vertices[m.edges[edge.twin].origin],
                      axis, positive)
        THEN Some(m.edges[edge.twin].origin)
        ELSE IF nxt = None THEN NoneV
        ELSE IF nxt = m.vertices[v_id].outgoing_edge THEN NoneV
        ELSE IF steps > TLen(m.edges) THEN DivergeV
        ELSE FindNextLoop(m, v_id, axis, positive, nxt, steps + 1)

find_next_vertex_in_direction(m, v_id, axis, positive) ==
    IF m.vertices[v_id].outgoing_edge = None THEN NoneV
    ELSE FindNextLoop(m, v_id, axis, positive, m.vertices[v_id].outgoing_edge, 0)

(* The update of (closest_dist, found_coord), kept in acc as NoneV or        *)
(* Some(<<d, c>>), for an intersection at intersect_var, dist along the ray. *)
CloserHit(positive, acc, intersect_var, dist) ==
    IF (IF positive THEN GtTol(dist, 6) ELSE LtNegTol(dist, 6))
       /\ (acc.tag = "none" \/ RLt(RAbs(dist), acc.val[1]))
    THEN Some(<<RAbs(dist), intersect_var>>)
    ELSE acc

(* The edge from p1 to p2 against the ray from (ray_start, ray_const). *)
SegmentAgainstRay(positive, acc, ray_const, ray_start, e_p1_const, e_p1_var, e_p2_const, e_p2_var) ==
    IF GtTol(RSub(RMin(e_p1_const, e_p2_const), ray_const), 9)
       \/ GtTol(RSub(ray_const, RMax(e_p1_const, e_p2_const)), 9)
    THEN acc
    ELSE IF LtTol(RAbs(RSub(e_p2_const, e_p1_const)), 12) THEN acc
    ELSE
      LET Hit(intersect_var) ==
              CloserHit(positive, acc, intersect_var, RSub(intersect_var, ray_start))
      IN  Hit(RAdd(e_p1_var,
                   RMul(RDiv(RSub(ray_const, e_p1_const), RSub(e_p2_const, e_p1_const)),
                        RSub(e_p2_var, e_p1_var))))

(* One bounding edge of an incident face against the ray. *)
EdgeAgainstRay(m, v, axis, positive, edge_id, acc) ==
    LET edge == m.edges[edge_id]
        p1 == m.vertices[edge.origin].uv
        p2 == IF edge.twin # None
              THEN m.vertices[m.edges[edge.twin].origin].uv
              ELSE m.vertices[m.edges[edge.next].origin].uv
    IN  SegmentAgainstRay(positive, acc, OtherCoord(v.uv, axis), Coord(v.uv, axis),
                          OtherCoord(p1, axis), Coord(p1, axis),
                          OtherCoord(p2, axis), Coord(p2, axis))

RECURSIVE FaceAgainstRay(_, _, _, _, _, _, _)
FaceAgainstRay(m, v, axis, positive, edges, i, acc) ==
    IF i > Len(edges) THEN acc
    ELSE FaceAgainstRay(m, v, axis, positive, edges, i + 1,
                        EdgeAgainstRay(m, v, axis, positive, edges[i], acc))

(* The loop of find_face_intersection over the spokes e -> next(twin(e)). *)
RECURSIVE FaceIntersectionLoop(_, _, _, _, _, _, _)
RECURSIVE SpokeFace(_, _, _, _, _, _, _, _)
FaceIntersectionLoop(m, v, axis, positive, curr_spoke, acc, steps) ==
    SpokeFace(m, v, axis, positive, curr_spoke, acc, steps,
              IF m.edges[curr_spoke].face # None
              THEN face_edges(m, m.edges[curr_spoke].face)
              ELSE Some(<<>>))

(* The body of that loop for the spoke's face loop fe. *)
SpokeFace(m, v, axis, positive, curr_spoke, acc, steps, fe) ==
    LET nxt == IF m.edges[curr_spoke].twin = None THEN None
               ELSE m.edges[m.edges[curr_spoke].twin].next
    IN  IF fe.tag # "some" THEN fe
        ELSE IF nxt = None \/ nxt = v.outgoing_edge
        THEN FaceAgainstRay(m, v, axis, positive, fe.val, 1, acc)
        ELSE IF steps > TLen(m.edges) THEN DivergeV
        ELSE FaceIntersectionLoop(m, v, axis, positive, nxt,
                                  FaceAgainstRay(m, v, axis, positive, fe.val, 1, acc),
                                  steps + 1)

(* found_coord of the closest hit. *)
FoundCoord(r) == IF r.tag = "some" THEN Some(r.val[2]) ELSE r

(* Some(coord), NoneV, or PanicV / DivergeV when a face walk does not return. *)
find_face_intersection(m, start_v, axis, positive) ==
    IF m.vertices[start_v].outgoing_edge = None THEN NoneV
    ELSE FoundCoord(FaceIntersectionLoop(m, m.vertices[start_v], axis, positive,
                                         m.vertices[start_v].outgoing_edge, NoneV, 0))

(* The else branch of trace_knots: the face intersection, or the last knot *)
(* repeated, fills what is left of results.                                *)
FillKnots(results, last_knot, hit) ==
    IF hit.tag = "some"
    THEN Some(IF Len(results) = 0 THEN <<hit.val, hit.val>> ELSE Append(results, hit.val))
    ELSE IF hit.tag = "none"
    THEN Some(IF Len(results) = 0 THEN <<last_knot, last_knot>>
              ELSE Append(results, last_knot))
    ELSE hit

(* The while loop of trace_knots; results holds the knots found so far. *)
RECURSIVE TraceLoop(_, _, _, _, _)
RECURSIVE TraceStep(_, _, _, _, _, _)
TraceLoop(m, current_v, axis, positive, results) ==
    IF Len(results) >= 2 THEN Some(results)
    ELSE TraceStep(m, current_v, axis, positive, results,
                   find_next_vertex_in_direction(m, current_v, axis, positive))

(* One iteration, for the outcome nv of the directional search. *)
TraceStep(m, current_v, axis, positive, results, nv) ==
    IF nv.tag = "diverge" THEN nv
    ELSE IF nv.tag = "some"
    THEN TraceLoop(m, nv.val, axis, positive,
                   Append(results, Coord(m.vertices[nv.val].uv, axis)))
    ELSE FillKnots(results,
                   IF Len(results) > 0 THEN results[Len(results)]
                   ELSE Coord(m.vertices[current_v].uv, axis),
                   find_face_intersection(m, current_v, axis, positive))

trace_knots(m, start_v, axis, positive) == TraceLoop(m, start_v, axis, positive, <<>>)

(* The assembly without the boundary shift. *)
AssembleKnotsUnshifted(c2, neg, pos) == <<neg[2], neg[1], c2, pos[1], pos[2]>>

(* The assembly with the negative ray kept in walking order. *)
AssembleKnotsForward(c2, neg, pos) ==
    IF neg[1] = c2 /\ neg[2] = c2 THEN <<c2, c2, c2, c2, pos[1]>>
    ELSE IF pos[1] = c2 /\ pos[2] = c2 THEN <<neg[1], c2, c2, c2, c2>>
    ELSE <<neg[1], neg[2], c2, pos[1], pos[2]>>

(* The assembly and boundary shift of infer_local_knots for one axis. *)
AssembleKnots(c2, neg, pos) ==
    IF neg[1] = c2 /\ neg[2] = c2 THEN <<c2, c2, c2, c2, pos[1]>>
    ELSE IF pos[1] = c2 /\ pos[2] = c2 THEN <<neg[2], c2, c2, c2, c2>>
    ELSE <<neg[2], neg[1], c2, pos[1], pos[2]>>

(* The two knot vectors from the four traced rays, or the failure of a ray. *)
LocalKnots(uv, s_pos, s_neg, t_pos, t_neg) ==
    IF s_pos.tag # "some" THEN s_pos
    ELSE IF s_neg.tag # "some" THEN s_neg
    ELSE IF t_pos.tag # "some" THEN t_pos
    ELSE IF t_neg.tag # "some" THEN t_neg
    ELSE Some(<<AssembleKnots(uv.s, s_neg.val, s_pos.val),
                AssembleKnots(uv.t, t_neg.val, t_pos.val)>>)

(* Some(<<s_knots, t_knots>>), or the failure of one of the four rays. *)
infer_local_knots(m, v_id) ==
    LocalKnots(m.vertices[v_id].uv,
               trace_knots(m, v_id, "S", TRUE), trace_knots(m, v_id, "S", FALSE),
               trace_knots(m, v_id, "T", TRUE), trace_knots(m, v_id, "T", FALSE))

(* The collect of knot_vectors: entry v of the vector, for v = 0, 1, ...;   *)
(* a panic in any per-vertex task is the panic of the whole call.           *)
RECURSIVE KnotsLoop(_, _, _)
RECURSIVE KnotsPush(_, _, _, _)
KnotsLoop(m, v, acc) ==
    IF v \notin DOMAIN m.vertices THEN Some([i \in DOMAIN m.vertices |-> acc[i + 1]])
    ELSE KnotsPush(m, v, acc, infer_local_knots(m, v))

KnotsPush(m, v, acc, knots) ==
    IF knots.tag # "some" THEN knots ELSE KnotsLoop(m, v + 1, Append(acc, knots.val))

knot_vectors(m) == KnotsLoop(m, 0, <<>>)

-----------------------------------------------------------------------------
(* Cubic B-spline basis kernel and rational evaluator *)

(* knots[i] of the source, 0-based. *)
K(knots, i) == knots[i + 1]

(* The degree-0 step functions evaluated at u itself, without the step back *)
(* from the upper end of the support.                                       *)
DegreeZeroUnclamped(u, knots) ==
    [j \in 1..4 |-> IF RGe(u, K(knots, j - 1)) /\ RLt(u, K(knots, j)) THEN One ELSE Zero]

(* The degree-0 step functions. For u >= knots[4] the source evaluates them *)
(* at u_eval = knots[4] - 1e-14: u_eval >= k iff knots[4] - k >= 1e-14, and *)
(* u_eval < k iff knots[4] - k < 1e-14.                                      *)
DegreeZero(u, knots) ==
    LET clamp == RGe(u, K(knots, 4))
        geq(k) == IF clamp THEN ~LtTol(RSub(K(knots, 4), k), 14) ELSE RGe(u, k)
        less(k) == IF clamp THEN LtTol(RSub(K(knots, 4), k), 14) ELSE RLt(u, k)
    IN  [j \in 1..4 |-> IF geq(K(knots, j - 1)) /\ less(K(knots, j)) THEN One ELSE Zero]

(* One half of the recurrence: (num / den) * below when |den| > 1e-12. *)
BasisPart(num, den, below) ==
    IF GtTol(RAbs(den), 12) THEN RMul(RDiv(num, den), below) ELSE Zero

(* One value of one degree layer: n[i] for degree p from the layer below. *)
BasisTerm(u, knots, n, p, i) ==
    RAdd(BasisPart(RSub(u, K(knots, i)), RSub(K(knots, i + p), K(knots, i)), n[i + 1]),
         BasisPart(RSub(K(knots, i + p + 1), u),
                   RSub(K(knots, i + p + 1), K(knots, i + 1)), n[i + 2]))

(* The in-place update of the scratch array for degree p: entries 0..3-p. *)
BasisLayer(u, knots, n, p) ==
    <<BasisTerm(u, knots, n, p, 0),
      IF p <= 2 THEN BasisTerm(u, knots, n, p, 1) ELSE n[2],
      IF p <= 1 THEN BasisTerm(u, knots, n, p, 2) ELSE n[3],
      n[4]>>

cubic_basis_function(u, knots) ==
    IF RLt(u, K(knots, 0)) \/ RGt(u, K(knots, 4)) THEN Zero
    ELSE BasisLayer(u, knots,
            BasisLayer(u, knots,
                BasisLayer(u, knots, DegreeZero(u, knots), 1), 2), 3)[1]

(* numerator += geometry * basis when |basis| > 1e-12; denominator += basis. *)
AddTerm(acc, geometry, basis) ==
    <<IF GtTol(RAbs(basis), 12)
      THEN <<RAdd(acc[1][1], RMul(geometry[1], basis)),
             RAdd(acc[1][2], RMul(geometry[2], basis)),
             RAdd(acc[1][3], RMul(geometry[3], basis)),
             RAdd(acc[1][4], RMul(geometry[4], basis))>>
      ELSE acc[1],
      RAdd(acc[2], basis)>>

(* The loop of subs over the vertices: acc = <<numerator, denominator>>. *)
RECURSIVE SubsLoop(_, _, _, _, _, _)
SubsLoop(m, s, t, knot_cache, i, acc) ==
    IF i \notin DOMAIN m.vertices THEN acc
    ELSE IF \/ RLt(s, K(knot_cache[i][1], 0)) \/ RGt(s, K(knot_cache[i][1], 4))
            \/ RLt(t, K(knot_cache[i][2], 0)) \/ RGt(t, K(knot_cache[i][2], 4))
    THEN SubsLoop(m, s, t, knot_cache, i + 1, acc)
    ELSE SubsLoop(m, s, t, knot_cache, i + 1,
                  AddTerm(acc, m.vertices[i].geometry,
                          RMul(RMul(cubic_basis_function(s, knot_cache[i][1]),
                                    cubic_basis_function(t, knot_cache[i][2])),
                               m.vertices[i].geometry[4])))

(* <<numerator, denominator>> of the rational sum at (s, t). *)
Accumulate(m, s, t, knot_cache) ==
    SubsLoop(m, s, t, knot_cache, 0, <<<<Zero, Zero, Zero, Zero>>, Zero>>)

(* The outcome with the origin standing in for an undefined point. *)
RationalizeSentinel(acc) ==
    IF LtTol(RAbs(acc[2]), 9) THEN Some(<<Zero, Zero, Zero>>)
    ELSE Some(<<RDiv(acc[1][1], acc[2]), RDiv(acc[1][2], acc[2]), RDiv(acc[1][3], acc[2])>>)

(* The outcome of subs for an accumulated sum: no point when |D| < 1e-9. *)
Rationalize(acc) ==
    IF LtTol(RAbs(acc[2]), 9) THEN NoneV
    ELSE Some(<<RDiv(acc[1][1], acc[2]), RDiv(acc[1][2], acc[2]), RDiv(acc[1][3], acc[2])>>)

subs(m, s, t, knot_cache) == Rationalize(Accumulate(m, s, t, knot_cache))

-----------------------------------------------------------------------------
(* Bounds *)

(* Stands for T::max_value(): above every scalar the model forms. *)
ScalarMax == <<1000000, 1>>
(* Stands for T::min_value(): below every scalar the model forms. *)
ScalarMin == <<-1000000, 1>>

BoundsDefault == [s |-> <<ScalarMax, ScalarMin>>, t |-> <<ScalarMax, ScalarMin>>]

add_vertex(b, point) ==
    [s |-> <<RMin(b.s[1], point.uv.s), RMax(b.s[2], point.uv.s)>>,
     t |-> <<RMin(b.t[1], point.uv.t), RMax(b.t[2], point.uv.t)>>]

RECURSIVE AddMeshLoop(_, _, _)
AddMeshLoop(b, m, i) ==
    IF i \notin DOMAIN m.vertices THEN b
    ELSE AddMeshLoop(add_vertex(b, m.vertices[i]), m, i + 1)

add_mesh(b, m) == AddMeshLoop(b, m, 0)

(* The grid walked column by column: u from i / resolution, v from i % resolution. *)
InterpolateColumnMajor(b, i, resolution) ==
    IF resolution <= 1 THEN <<b.s[1], b.t[1]>>
    ELSE <<RAdd(b.s[1], RDiv(RMul(RInt(i \div resolution), RSub(b.s[2], b.s[1])),
                             RInt(resolution - 1))),
           RAdd(b.t[1], RDiv(RMul(RInt(i % resolution), RSub(b.t[2], b.t[1])),
                             RInt(resolution - 1)))>>

(* Point i of the resolution x resolution grid, as <<s, t>>. *)
interpolate(b, i, resolution) ==
    IF resolution <= 1 THEN <<b.s[1], b.t[1]>>
    ELSE
      LET denom == RInt(resolution - 1)
          u_i == RInt(i % resolution)
          v_i == RInt(i \div resolution)
      IN  <<RAdd(b.s[1], RDiv(RMul(u_i, RSub(b.s[2], b.s[1])), denom)),
            RAdd(b.t[1], RDiv(RMul(v_i, RSub(b.t[2], b.t[1])), denom))>>

(* Bounds::add_edge: the origin of the half-edge. *)
add_edge(b, m, edge) == add_vertex(b, m.vertices[m.edges[edge].origin])

RECURSIVE AddFaceLoop(_, _, _, _)
AddFaceLoop(b, m, edges, i) ==
    IF i > Len(edges) THEN b ELSE AddFaceLoop(add_edge(b, m, edges[i]), m, edges, i + 1)

(* Bounds::add_face over the half-edges face_edges returned. *)
AddFaceEdges(b, m, fe) == IF fe.tag = "some" THEN Some(AddFaceLoop(b, m, fe.val, 1)) ELSE fe

add_face(b, m, face) == AddFaceEdges(b, m, face_edges(m, face))

(* Bounds::area: s.1 - s.0 * (t.1 - t.0), as the source parenthesises it. *)
area(b) == RSub(b.s[2], RMul(b.s[1], RSub(b.t[2], b.t[1])))

(* Bounds::center *)
center(b) == <<RDiv(RAdd(b.s[1], b.s[2]), RInt(2)), RDiv(RAdd(b.t[1], b.t[2]), RInt(2))>>

-----------------------------------------------------------------------------
(* The caching wrapper (models::TSpline) and its knot inference *)

(* The while loop of models::TMesh::trace_knots: at the mesh edge the last *)
(* knot found (or the vertex's own coordinate) is repeated.                *)
RECURSIVE ModelsTraceLoop(_, _, _, _, _)
RECURSIVE ModelsTraceStep(_, _, _, _, _, _)
ModelsTraceLoop(m, current_v, axis, positive, results) ==
    IF Len(results) >= 2 THEN Some(results)
    ELSE ModelsTraceStep(m, current_v, axis, positive, results,
                         find_next_vertex_in_direction(m, current_v, axis, positive))

ModelsTraceStep(m, current_v, axis, positive, results, nv) ==
    IF nv.tag = "diverge" THEN nv
    ELSE IF nv.tag = "some"
    THEN ModelsTraceLoop(m, nv.val, axis, positive,
                         Append(results, Coord(m.vertices[nv.val].uv, axis)))
    ELSE FillKnots(results,
                   IF Len(results) > 0 THEN results[Len(results)]
                   ELSE Coord(m.vertices[current_v].uv, axis),
                   NoneV)

models_trace_knots(m, start_v, axis, positive) ==
    ModelsTraceLoop(m, start_v, axis, positive, <<>>)

(* [s_neg[1], s_neg[1], s2, s_pos[1], s_pos[1]] and the same in t. *)
ModelsLocalKnots(uv, s_pos, s_neg, t_pos, t_neg) ==
    IF s_pos.tag # "some" THEN s_pos
    ELSE IF s_neg.tag # "some" THEN s_neg
    ELSE IF t_pos.tag # "some" THEN t_pos
    ELSE IF t_neg.tag # "some" THEN t_neg
    ELSE Some(<<<<s_neg.val[2], s_neg.val[2], uv.s, s_pos.val[2], s_pos.val[2]>>,
                <<t_neg.val[2], t_neg.val[2], uv.t, t_pos.val[2], t_pos.val[2]>>>>)

models_infer_local_knots(m, v_id) ==
    ModelsLocalKnots(m.vertices[v_id].uv,
        models_trace_knots(m, v_id, "S", TRUE), models_trace_knots(m, v_id, "S", FALSE),
        models_trace_knots(m, v_id, "T", TRUE), models_trace_knots(m, v_id, "T", FALSE))

RECURSIVE BuildLoop(_, _, _)
RECURSIVE BuildPush(_, _, _, _)
BuildLoop(m, v, acc) ==
    IF v \notin DOMAIN m.vertices THEN Some([i \in DOMAIN m.vertices |-> acc[i + 1]])
    ELSE BuildPush(m, v, acc, models_infer_local_knots(m, v))

BuildPush(m, v, acc, knots) ==
    IF knots.tag # "some" THEN knots ELSE BuildLoop(m, v + 1, Append(acc, knots.val))

build_knot_cache(m) == BuildLoop(m, 0, <<>>)

(* Closures handed to perform / apply_mut, as data.                          *)
(*   set_z    : m.vertices[v].geometry.z = z                                 *)
(*   set_w    : m.vertices[v].geometry.w = z                                 *)
(*   move     : m.vertices[v].uv.s += 1                                      *)
(*   move_err : m.vertices[v].uv.s += 1; Err(())                             *)
(*   err      : Err(())                                                      *)
Op(kind, v, z) == [kind |-> kind, v |-> v, z |-> z]

(* The mesh after the closure has run, and what the closure returned. *)
RunOp(m, op) ==
    CASE op.kind = "set_z" ->
            [mesh |-> [m EXCEPT !.vertices[op.v].geometry[3] = op.z], res |-> "ok"]
      [] op.kind = "set_w" ->
            [mesh |-> [m EXCEPT !.vertices[op.v].geometry[4] = op.z], res |-> "ok"]
      [] op.kind = "move" ->
            [mesh |-> [m EXCEPT !.vertices[op.v].uv.s = RAdd(@, One)], res |-> "ok"]
      [] op.kind = "move_err" ->
            [mesh |-> [m EXCEPT !.vertices[op.v].uv.s = RAdd(@, One)], res |-> "err"]
      [] op.kind = "err" -> [mesh |-> m, res |-> "err"]

(* TSpline::perform: the `?` returns before the cache is rebuilt. *)
Performed(cache, r) ==
    IF r.res = "err"
    THEN [mesh |-> r.mesh, knot_cache |-> cache, res |-> "err"]
    ELSE [mesh |-> r.mesh, knot_cache |-> build_knot_cache(r.mesh), res |-> "ok"]

perform(m, cache, op) == Performed(cache, RunOp(m, op))

(* TSpline::apply_mut of the cache-less wrapper. *)
apply_mut(m, op) == RunOp(m, op)

-----------------------------------------------------------------------------
(* Tessellate *)

Empty == [tag |-> "empty"]

(* The result appended behind the results that arrived before it. *)
PlaceInArrivalOrder(slots, i, r) ==
    [slots EXCEPT ![CHOOSE j \in DOMAIN slots :
                        /\ slots[j] = Empty
                        /\ \A k \in DOMAIN slots : k < j => slots[k] # Empty] = r]

(* Where the result of grid sample i lands in the collected sequence: the    *)
(* parallel iterator keeps the position of every item.                       *)
Place(slots, i, r) == [slots EXCEPT ![i] = r]

(* filter_map(|p| p).collect(): the points of the defined samples, in order. *)
RECURSIVE Collect(_, _)
Collect(slots, i) ==
    IF i \notin DOMAIN slots THEN <<>>
    ELSE IF slots[i].tag = "some" THEN <<slots[i].val>> \o Collect(slots, i + 1)
    ELSE Collect(slots, i + 1)

TessIdle ==
    [status |-> "idle", resolution |-> 0, bounds |-> BoundsDefault,
     knot_cache |-> <<>>, pending |-> {}, slots |-> <<>>]

-----------------------------------------------------------------------------
(* Geometry primitives: parametric points and segments *)

ParamPoint(s, t) == [s |-> s, t |-> t]
Segment(start, end) == [start |-> start, end |-> end]

(* impl Sub for ParamPoint *)
PointSub(a, b) == ParamPoint(RSub(a.s, b.s), RSub(a.t, b.t))

cross(a, b) == RSub(RMul(a.s, b.t), RMul(a.t, b.s))

orient(a, b, c) == cross(PointSub(b, a), PointSub(c, a))

(* on_segment with only the s interval tested. *)
OnSegmentSOnly(p, a, b) ==
    /\ RLe(p.s, IF RGe(a.s, b.s) THEN a.s ELSE b.s)
    /\ RGe(p.s, IF RLe(a.s, b.s) THEN a.s ELSE b.s)

(* p lies in the axis-aligned bounding box of a and b. *)
on_segment(p, a, b) ==
    /\ RLe(p.s, IF RGe(a.s, b.s) THEN a.s ELSE b.s)
    /\ RGe(p.s, IF RLe(a.s, b.s) THEN a.s ELSE b.s)
    /\ RLe(p.t, IF RGe(a.t, b.t) THEN a.t ELSE b.t)
    /\ RGe(p.t, IF RLe(a.t, b.t) THEN a.t ELSE b.t)

(* x * y < 0: the product of two orientations is negative exactly when    *)
(* their signs are opposite; no product in reach underflows to zero.      *)
ProductNegative(x, y) == (x[1] < 0 /\ y[1] > 0) \/ (x[1] > 0 /\ y[1] < 0)

(* o.abs() < 1e-9 *)
Collinear(o) == LtTol(RAbs(o), 9)

(* The tests of intersects without the last one, other.end on self. *)
CrossOrTouchNoOtherEnd(self, other, oa, ob, oc, od) ==
    \/ ProductNegative(oa, ob) /\ ProductNegative(oc, od)
    \/ Collinear(oa) /\ on_segment(self.start, other.start, other.end)
    \/ Collinear(ob) /\ on_segment(self.end, other.start, other.end)
    \/ Collinear(oc) /\ on_segment(other.start, self.start, self.end)

(* The tests of intersects, in order, on the four orientations. *)
CrossOrTouch(self, other, oa, ob, oc, od) ==
    \/ ProductNegative(oa, ob) /\ ProductNegative(oc, od)
    \/ Collinear(oa) /\ on_segment(self.start, other.start, other.end)
    \/ Collinear(ob) /\ on_segment(self.end, other.start, other.end)
    \/ Collinear(oc) /\ on_segment(other.start, self.start, self.end)
    \/ Collinear(od) /\ on_segment(other.end, self.start, self.end)

(* Segment::intersects *)
intersects(self, other) ==
    CrossOrTouch(self, other,
                 orient(other.start, other.end, self.start),
                 orient(other.start, other.end, self.end),
                 orient(self.start, self.end, other.start),
                 orient(self.start, self.end, other.end))

-----------------------------------------------------------------------------
(* Analysis-suitability check (models::TMesh::validate_asts) *)

(* The spoke loop of find_next_orthogonal_edge: the rotation twin -> next. *)
RECURSIVE OrthogonalLoop(_, _, _, _, _, _)
RECURSIVE OrthogonalStep(_, _, _, _, _, _, _, _)
OrthogonalLoop(m, dir, forward, start_edge, curr, steps) ==
    IF steps > TLen(m.edges) THEN DivergeV
    ELSE OrthogonalStep(m, dir, forward, start_edge, curr, steps, m.edges[curr],
                        IF m.edges[curr].twin = None THEN Zero
                        ELSE RSub(Coord(m.vertices[m.edges[m.edges[curr].twin].origin].uv, dir),
                                  Coord(m.vertices[m.edges[curr].origin].uv, dir)))

(* One spoke, with its geometry_delta. *)
OrthogonalStep(m, dir, forward, start_edge, curr, steps, edge, geometry_delta) ==
    IF edge.direction = dir
       /\ ((forward /\ geometry_delta[1] > 0) \/ (~forward /\ geometry_delta[1] < 0))
    THEN Some(m.edges[edge.twin].origin)
    ELSE IF edge.twin = None THEN NoneV
    ELSE IF m.edges[edge.twin].next = start_edge THEN NoneV
    ELSE OrthogonalLoop(m, dir, forward, start_edge, m.edges[edge.twin].next, steps + 1)

find_next_orthogonal_edge(m, v, dir, forward) ==
    IF m.vertices[v].outgoing_edge = None THEN NoneV
    ELSE OrthogonalLoop(m, dir, forward, m.vertices[v].outgoing_edge,
                        m.vertices[v].outgoing_edge, 0)

(* The for loop of cast_ray_for_knot with `left` steps to go. *)
RECURSIVE CastLoop(_, _, _, _, _)
RECURSIVE CastStep(_, _, _, _, _, _)
CastLoop(m, curr_v, dir, is_forward, left) ==
    IF left = 0 THEN Some(Coord(m.vertices[curr_v].uv, dir))
    ELSE CastStep(m, curr_v, dir, is_forward, left,
                  find_next_orthogonal_edge(m, curr_v, dir, is_forward))

CastStep(m, curr_v, dir, is_forward, left, nv) ==
    IF nv.tag = "some" THEN CastLoop(m, nv.val, dir, is_forward, left - 1)
    ELSE IF nv.tag = "none" THEN Some(Coord(m.vertices[curr_v].uv, dir))
    ELSE nv

cast_ray_for_knot(m, start_v, dir, steps) == CastLoop(m, start_v, dir, steps > 0, Abs(steps))

(* The stub of the source: every T-junction is taken to point along S. *)
t_junction_orientation(m, v) == "S"

(* The extension of the T-junction at start_uv that ends at the traced coordinate. *)
Extension(start_uv, dir, end_val) ==
    IF dir = "S" THEN Segment(ParamPoint(start_uv.s, start_uv.t), ParamPoint(end_val, start_uv.t))
    ELSE Segment(ParamPoint(start_uv.s, start_uv.t), ParamPoint(start_uv.s, end_val))

(* The loop of collect_extensions over the vertex table. *)
RECURSIVE CollectLoop(_, _, _, _)
RECURSIVE CollectPush(_, _, _, _, _)
CollectLoop(m, dir, idx, extensions) ==
    IF idx \notin DOMAIN m.vertices THEN Some(extensions)
    ELSE IF ~m.vertices[idx].is_t_junction THEN CollectLoop(m, dir, idx + 1, extensions)
    ELSE IF t_junction_orientation(m, idx) # dir THEN CollectLoop(m, dir, idx + 1, extensions)
    ELSE CollectPush(m, dir, idx, extensions, cast_ray_for_knot(m, idx, dir, 2))

CollectPush(m, dir, idx, extensions, end_val) ==
    IF end_val.tag # "some" THEN end_val
    ELSE CollectLoop(m, dir, idx + 1,
                     Append(extensions, Extension(m.vertices[idx].uv, dir, end_val.val)))

collect_extensions(m, dir) == CollectLoop(m, dir, 0, <<>>)

(* The double loop of validate_asts over the two families. *)
AnyCrossing(h_exts, v_exts) ==
    IF h_exts.tag # "some" THEN h_exts
    ELSE IF v_exts.tag # "some" THEN v_exts
    ELSE Some(~\E i \in 1..Len(h_exts.val), j \in 1..Len(v_exts.val) :
                  intersects(h_exts.val[i], v_exts.val[j]))

validate_asts(m) == AnyCrossing(collect_extensions(m, "S"), collect_extensions(m, "T"))

(* A mesh of six faces over [0, 2] x [0, 3]: vertex 8 at (1, 2) is a        *)
(* T-junction with no edge towards -s, vertex 5 at (0.5, 1) a T-junction    *)
(* with no edge towards +t; both face the six-sided face 3.                 *)
CrossingCoords ==
    << <<Zero, Zero>>, <<Half, Zero>>, <<One, Zero>>, <<RInt(2), Zero>>,
       <<Zero, One>>, <<Half, One>>, <<One, One>>, <<RInt(2), One>>,
       <<One, RInt(2)>>, <<RInt(2), RInt(2)>>, <<Zero, RInt(3)>>, <<One, RInt(3)>>,
       <<RInt(2), RInt(3)>> >>

CrossingEdges ==
    << <<0, 1, 3, 26, 0, "S", Half>>, <<1, 2, 0, 7, 0, "T", One>>,
       <<5, 3, 1, 12, 0, "S", Half>>, <<4, 0, 2, 27, 0, "T", One>>,
       <<1, 5, 7, 35, 1, "S", Half>>, <<2, 6, 4, 11, 1, "T", One>>,
       <<6, 7, 5, 13, 1, "S", Half>>, <<5, 4, 6, 1, 1, "T", One>>,
       <<2, 9, 11, 34, 2, "S", One>>, <<3, 10, 8, 33, 2, "T", One>>,
       <<7, 11, 9, 18, 2, "S", One>>, <<6, 8, 10, 5, 2, "T", One>>,
       <<4, 13, 17, 2, 3, "S", Half>>, <<5, 14, 12, 6, 3, "S", Half>>,
       <<6, 15, 13, 21, 3, "T", One>>, <<8, 16, 14, 25, 3, "T", One>>,
       <<11, 17, 15, 29, 3, "S", One>>, <<10, 12, 16, 28, 3, "T", RInt(2)>>,
       <<6, 19, 21, 10, 4, "S", One>>, <<7, 20, 18, 32, 4, "T", One>>,
       <<9, 21, 19, 22, 4, "S", One>>, <<8, 18, 20, 14, 4, "T", One>>,
       <<8, 23, 25, 20, 5, "S", One>>, <<9, 24, 22, 31, 5, "T", One>>,
       <<12, 25, 23, 30, 5, "S", One>>, <<11, 22, 24, 15, 5, "T", One>>,
       <<1, 27, 35, 0, None, "S", Half>>, <<0, 28, 26, 3, None, "T", One>>,
       <<4, 29, 27, 17, None, "T", RInt(2)>>, <<10, 30, 28, 16, None, "S", One>>,
       <<11, 31, 29, 24, None, "S", One>>, <<12, 32, 30, 23, None, "T", One>>,
       <<9, 33, 31, 19, None, "T", One>>, <<7, 34, 32, 9, None, "T", One>>,
       <<3, 35, 33, 8, None, "S", One>>, <<2, 26, 34, 4, None, "S", Half>> >>

CrossingMesh ==
    LET verts == [i \in 0..12 |->
                    LET r == CrossingCoords[i + 1]
                    IN  ControlPoint(r[1], r[2], Zero, One, r[1], r[2], None, i \in {5, 8})]
        m == AddEdges([EmptyMesh EXCEPT !.vertices = verts], CrossingEdges, 1)
    IN  [m EXCEPT !.faces = PushAll(EmptyTable, <<Face(0), Face(4), Face(8), Face(12), Face(18), Face(22)>>, 1)]

-----------------------------------------------------------------------------
(* find_edge *)

(* The circulation stepping along the face loop instead of to the next spoke. *)
RECURSIVE FindEdgeLoopAlongFace(_, _, _, _, _)
FindEdgeLoopAlongFace(m, v_end, first_edge, curr, steps) ==
    IF m.edges[curr].twin = None THEN NoneV
    ELSE IF m.edges[m.edges[curr].twin].origin = v_end THEN Some(curr)
    ELSE IF m.edges[curr].next = first_edge THEN NoneV
    ELSE IF steps = 0 THEN DivergeV
    ELSE FindEdgeLoopAlongFace(m, v_end, first_edge, m.edges[curr].next, steps - 1)

(* The loop of find_edge: return curr when its twin starts at v_end, else   *)
(* go to twin.next; give up at a half-edge without twin or when the first   *)
(* spoke recurs. A circulation longer than the edge table never ends.       *)
RECURSIVE FindEdgeLoop(_, _, _, _, _)
FindEdgeLoop(m, v_end, first_edge, curr, steps) ==
    IF m.edges[curr].twin = None THEN NoneV
    ELSE IF m.edges[m.edges[curr].twin].origin = v_end THEN Some(curr)
    ELSE IF m.edges[m.edges[curr].twin].next = first_edge THEN NoneV
    ELSE IF steps = 0 THEN DivergeV
    ELSE FindEdgeLoop(m, v_end, first_edge, m.edges[m.edges[curr].twin].next, steps - 1)

find_edge(m, v_start, v_end) ==
    IF m.vertices[v_start].outgoing_edge = None THEN NoneV
    ELSE FindEdgeLoop(m, v_end, m.vertices[v_start].outgoing_edge,
                      m.vertices[v_start].outgoing_edge, TLen(m.edges))

-----------------------------------------------------------------------------
(* SplitFace *)

(* The destination split_edge reads: the twin's origin, else the next edge's. *)
SplitDest(m, edge_id) ==
    IF m.edges[edge_id].twin # None
    THEN m.edges[m.edges[edge_id].twin].origin
    ELSE m.edges[m.edges[edge_id].next].origin

(* origin + (dest - origin) * alpha *)
Lerp(a, b, alpha) == RAdd(a, RMul(RSub(b, a), alpha))

(* The twin branch with the halves paired straight: E with T, E_new with   *)
(* T_new.                                                                  *)
SplitTwinUncrossed(m, edge_id, e_new_id, t_id, new_vert_id, alpha) ==
    LET t == m.edges[t_id]
        t_new_id == TLen(m.edges)
        m1 == [m EXCEPT !.edges[t_id].next = t_new_id,
                        !.edges[t_id].knot_interval = RMul(t.knot_interval, RSub(One, alpha))]
        m2 == [m1 EXCEPT !.edges = Push(@, HalfEdge(new_vert_id, t.next, t_id, e_new_id, t.face,
                                                    RMul(t.knot_interval, alpha), t.direction))]
        m3 == [m2 EXCEPT !.edges[t.next].prev = t_new_id]
    IN  [m3 EXCEPT !.edges[e_new_id].twin = t_new_id]

(* The twin branch of split_edge: T is cut at the new vertex as well and   *)
(* the four halves are paired crosswise.                                   *)
SplitTwin(m, edge_id, e_new_id, t_id, new_vert_id, alpha) ==
    LET t == m.edges[t_id]
        t_new_id == TLen(m.edges)
        m1 == [m EXCEPT !.edges[t_id].next = t_new_id,
                        !.edges[t_id].knot_interval = RMul(t.knot_interval, RSub(One, alpha))]
        m2 == [m1 EXCEPT !.edges = Push(@, HalfEdge(new_vert_id, t.next, t_id, edge_id, t.face,
                                                    RMul(t.knot_interval, alpha), t.direction))]
        m3 == [m2 EXCEPT !.edges[t.next].prev = t_new_id]
        m4 == [m3 EXCEPT !.edges[edge_id].twin = t_new_id]
        m5 == [m4 EXCEPT !.edges[e_new_id].twin = t_id]
    IN  [m5 EXCEPT !.edges[t_id].twin = e_new_id]

(* split_edge: the new vertex at split_val on the edge, the edge cut in    *)
(* two, its twin cut in two. Returns the mesh and the new vertex handle.   *)
split_edge(m, edge_id, split_val, split_dir) ==
    LET e == m.edges[edge_id]
        v_origin == m.vertices[e.origin]
        v_dest == m.vertices[SplitDest(m, edge_id)]
        c1 == IF split_dir = "S" THEN v_origin.uv.t ELSE v_origin.uv.s
        c2 == IF split_dir = "S" THEN v_dest.uv.t ELSE v_dest.uv.s
        alpha == RDiv(RSub(split_val, c1), RSub(c2, c1))
        geom == [i \in 1..4 |-> Lerp(v_origin.geometry[i], v_dest.geometry[i], alpha)]
        uv == [s |-> Lerp(v_origin.uv.s, v_dest.uv.s, alpha),
               t |-> Lerp(v_origin.uv.t, v_dest.uv.t, alpha)]
        new_vert_id == TLen(m.vertices)
        e_new_id == TLen(m.edges)
        m1 == [m EXCEPT !.vertices = Push(@, [geometry |-> geom, uv |-> uv,
                                              outgoing_edge |-> None, is_t_junction |-> TRUE])]
        m2 == [m1 EXCEPT !.edges[edge_id].next = e_new_id,
                         !.edges[edge_id].knot_interval = RMul(@, alpha)]
        m3 == [m2 EXCEPT !.edges = Push(@, HalfEdge(new_vert_id, e.next, edge_id, None, e.face,
                                                    RMul(e.knot_interval, RSub(One, alpha)),
                                                    e.direction))]
        m4 == [m3 EXCEPT !.edges[e.next].prev = e_new_id]
        m5 == [m4 EXCEPT !.vertices[new_vert_id].outgoing_edge = e_new_id]
    IN  [mesh |-> IF e.twin # None
                  THEN SplitTwin(m5, edge_id, e_new_id, e.twin, new_vert_id, alpha)
                  ELSE m5,
         vert |-> new_vert_id]

(* The value of one coordinate over the origins of the face's edges, folded *)
(* with min or with max.                                                    *)
RECURSIVE FaceExtent(_, _, _, _, _)
FaceExtent(m, edges, axis, wantMax, i) ==
    LET c == Coord(m.vertices[m.edges[edges[i]].origin].uv, axis)
    IN  IF i = Len(edges) THEN c
        ELSE IF wantMax THEN RMax(FaceExtent(m, edges, axis, wantMax, i + 1), c)
        ELSE RMin(FaceExtent(m, edges, axis, wantMax, i + 1), c)

(* The split parameter taken along the split line instead of across it. *)
SplitValAlong(m, edges, direction) ==
    RMul(RAdd(FaceExtent(m, edges, direction, FALSE, 1), FaceExtent(m, edges, direction, TRUE, 1)), Half)

(* (t_min + t_max) / 2 for direction S, (s_min + s_max) / 2 for direction T. *)
SplitVal(m, edges, direction) ==
    LET axis == IF direction = "S" THEN "T" ELSE "S"
    IN  RMul(RAdd(FaceExtent(m, edges, axis, FALSE, 1), FaceExtent(m, edges, axis, TRUE, 1)), Half)

(* The span test with the lower end of the edge admitted. *)
CrossesHalfOpen(m, e_id, direction, split_val) ==
    LET axis == IF direction = "S" THEN "T" ELSE "S"
        start_val == Coord(m.vertices[m.edges[e_id].origin].uv, axis)
        end_val == Coord(m.vertices[m.edges[m.edges[e_id].next].origin].uv, axis)
    IN  /\ RGe(split_val, RMin(start_val, end_val))
        /\ GtTol(RSub(RMax(start_val, end_val), split_val), 6)

(* The edge spans split_val, strictly and by more than 1e-6 on each side,  *)
(* in the coordinate the split line holds constant.                        *)
Crosses(m, e_id, direction, split_val) ==
    LET axis == IF direction = "S" THEN "T" ELSE "S"
        start_val == Coord(m.vertices[m.edges[e_id].origin].uv, axis)
        end_val == Coord(m.vertices[m.edges[m.edges[e_id].next].origin].uv, axis)
    IN  /\ GtTol(RSub(split_val, RMin(start_val, end_val)), 6)
        /\ GtTol(RSub(RMax(start_val, end_val), split_val), 6)

split_candidates(m, edges, direction, split_val) ==
    SelectSeq(edges, LAMBDA e_id : Crosses(m, e_id, direction, split_val))

(* The walk from E1_new along next: TRUE when E2 is met before E1. *)
RECURSIVE Downstream(_, _, _, _, _)
Downstream(m, e1_id, e2_id, cursor, steps) ==
    IF cursor = e2_id THEN Some(TRUE)
    ELSE IF cursor = e1_id THEN Some(FALSE)
    ELSE IF steps = 0 THEN DivergeV
    ELSE Downstream(m, e1_id, e2_id, m.edges[cursor].next, steps - 1)

(* The closing walk of execute: every half-edge of loop 2 gets the new face. *)
RECURSIVE RelabelLoop(_, _, _, _, _)
RelabelLoop(m, cross_twin_id, new_face_id, curr, steps) ==
    LET m1 == [m EXCEPT !.edges[curr].face = new_face_id]
    IN  IF m1.edges[curr].next = cross_twin_id THEN Some(m1)
        ELSE IF steps = 0 THEN DivergeV
        ELSE RelabelLoop(m1, cross_twin_id, new_face_id, m1.edges[curr].next, steps - 1)

(* Step 4 of execute: the cross edge and its twin between v_start and      *)
(* v_end, loop 1 keeping the old face and loop 2 taking the new one.       *)
Connect(m, face, direction, v_start, v_end, e_in_1, e_out_1, e_in_2, e_out_2) ==
    LET cross_id == TLen(m.edges)
        cross_twin_id == TLen(m.edges) + 1
        new_face_id == TLen(m.faces)
        axis == direction
        len == RAbs(RSub(Coord(m.vertices[v_end].uv, axis), Coord(m.vertices[v_start].uv, axis)))
        m1 == [m EXCEPT !.edges = Push(Push(@, HalfEdge(v_start, e_out_1, e_in_1, cross_twin_id,
                                                        face, len, direction)),
                                       HalfEdge(v_end, e_out_2, e_in_2, cross_id,
                                                new_face_id, len, direction)),
                        !.faces = Push(@, Face(cross_twin_id))]
        m2 == [m1 EXCEPT !.edges[e_in_1].next = cross_id]
        m3 == [m2 EXCEPT !.edges[e_out_1].prev = cross_id]
        m4 == [m3 EXCEPT !.faces[face].edge = cross_id]
        m5 == [m4 EXCEPT !.edges[e_in_2].next = cross_twin_id]
        m6 == [m5 EXCEPT !.edges[e_out_2].prev = cross_twin_id]
    IN  RelabelLoop(m6, cross_twin_id, new_face_id, cross_twin_id, TLen(m6.edges))

(* Steps 3 and 4 of execute on the two candidates. *)
SplitAt(m, face, direction, split_val, e1_id, e2_id) ==
    LET r1 == split_edge(m, e1_id, split_val, direction)
        r2 == split_edge(r1.mesh, e2_id, split_val, direction)
        m2 == r2.mesh
        down == Downstream(m2, e1_id, e2_id, m2.edges[e1_id].next, TLen(m2.edges))
    IN  IF ~IsSome(down) THEN down
        ELSE IF down.val
        THEN Connect(m2, face, direction, r1.vert, r2.vert,
                     e1_id, m2.edges[e2_id].next, e2_id, m2.edges[e1_id].next)
        ELSE Connect(m2, face, direction, r2.vert, r1.vert,
                     e2_id, m2.edges[e1_id].next, e1_id, m2.edges[e2_id].next)

(* SplitFace::execute with the face's edges at hand. *)
SplitFaceEdges(m, face, direction, edges) ==
    LET split_val == SplitVal(m, edges, direction)
        cands == split_candidates(m, edges, direction, split_val)
    IN  IF Len(cands) # 2 THEN Some(m)
        ELSE SplitAt(m, face, direction, split_val, cands[1], cands[2])

(* SplitFace::execute: the mesh after the call, or how the call failed. *)
split_face(m, face, direction) ==
    LET fe == face_edges(m, face)
    IN  IF ~IsSome(fe) THEN fe ELSE SplitFaceEdges(m, face, direction, fe.val)

-----------------------------------------------------------------------------
(* ObjWriter *)

(* The lines writeln! appends to obj, one tuple per line. *)
ObjectLine(name) == <<"o", name>>
VertexLine(x, y, z) == <<"v", x, y, z>>
FaceLine(a, b, c) == <<"f", a, b, c>>
LineLine(i, j) == <<"l", i, j>>

(* The loop over points: vertex_count += 1 and a v line for each. *)
RECURSIVE WritePoints(_, _, _)
WritePoints(w, points, i) ==
    IF i > Len(points) THEN w
    ELSE WritePoints([obj |-> Append(w.obj, VertexLine(points[i][1], points[i][2], points[i][3])),
                      vertex_count |-> w.vertex_count + 1], points, i + 1)

with_points(w, name, points) ==
    WritePoints([w EXCEPT !.obj = Append(@, ObjectLine(name))], points, 1)

(* The offset taken as if the block were the first of the file. *)
VertexOffsetOfFirstBlock(w) == 1

(* vertex_offset, read before the block's own v lines are written. *)
VertexOffset(w) == w.vertex_count + 1

RECURSIVE WriteTriangles(_, _, _, _)
WriteTriangles(w, triangles, vertex_offset, i) ==
    IF i > Len(triangles) THEN w
    ELSE WriteTriangles([w EXCEPT !.obj = Append(@, FaceLine(triangles[i][1] + vertex_offset,
                                                             triangles[i][2] + vertex_offset,
                                                             triangles[i][3] + vertex_offset))],
                        triangles, vertex_offset, i + 1)

with_triangles(w, name, points, triangles) ==
    WriteTriangles(WritePoints([w EXCEPT !.obj = Append(@, ObjectLine(name))], points, 1),
                   triangles, VertexOffset(w), 1)

(* The loop over mesh.vertices. *)
RECURSIVE WriteMeshVertices(_, _, _)
WriteMeshVertices(w, m, i) ==
    IF i >= TLen(m.vertices) THEN w
    ELSE WriteMeshVertices([obj |-> Append(w.obj, VertexLine(m.vertices[i].geometry[1],
                                                             m.vertices[i].geometry[2],
                                                             m.vertices[i].geometry[3])),
                            vertex_count |-> w.vertex_count + 1], m, i + 1)

(* The loop over mesh.edges: origin and origin of next, each plus the offset. *)
RECURSIVE WriteMeshEdges(_, _, _, _)
WriteMeshEdges(w, m, vertex_offset, i) ==
    IF i >= TLen(m.edges) THEN w
    ELSE WriteMeshEdges([w EXCEPT !.obj = Append(@, LineLine(m.edges[i].origin + vertex_offset,
                                                             m.edges[m.edges[i].next].origin + vertex_offset))],
                        m, vertex_offset, i + 1)

with_control_surface(w, name, m) ==
    WriteMeshEdges(WriteMeshVertices([w EXCEPT !.obj = Append(@, ObjectLine(name))], m, 0),
                   m, VertexOffset(w), 0)

-----------------------------------------------------------------------------
(* Bounds::interpolate with T = f32 *)

(* A non-negative f32 is <<m, e>>, the value m * 2^e with a 24-bit         *)
(* significand 2^23 <= m < 2^24, or <<0, 0>> for zero.                     *)
F32Zero == <<0, 0>>

F32One == <<8388608, -23>>

(* The f32 nearest to (n / d) * 2^e, ties to the even significand. *)
RECURSIVE F32Round(_, _, _)
F32Round(n, d, e) ==
    IF n = 0 THEN F32Zero
    ELSE IF n \div d >= 16777216 THEN F32Round(n, 2 * d, e + 1)
    ELSE IF n \div d < 8388608 THEN F32Round(2 * n, d, e - 1)
    ELSE LET q == n \div d
             r == n % d
             m == IF 2 * r > d \/ (2 * r = d /\ q % 2 = 1) THEN q + 1 ELSE q
         IN  IF m = 16777216 THEN <<8388608, e + 1>> ELSE <<m, e>>

(* T::from_usize(k) * x, for k below 2^7. *)
F32MulUsize(k, x) == F32Round(k * x[1], 1, x[2])

(* x / T::from_usize(k), for k from 1 to below 2^7. *)
F32DivUsize(x, k) == F32Round(x[1], k, x[2])

(* x + y and x - y (x >= y) for operands whose exponents differ by at     *)
(* most 6, or with a zero operand.                                         *)
F32Add(x, y) ==
    IF x[1] = 0 THEN y
    ELSE IF y[1] = 0 THEN x
    ELSE LET e == IF x[2] < y[2] THEN x[2] ELSE y[2]
         IN  F32Round(x[1] * 2^(x[2] - e) + y[1] * 2^(y[2] - e), 1, e)

F32Sub(x, y) ==
    IF y[1] = 0 THEN x
    ELSE LET e == IF x[2] < y[2] THEN x[2] ELSE y[2]
         IN  F32Round(x[1] * 2^(x[2] - e) - y[1] * 2^(y[2] - e), 1, e)

(* Bounds::interpolate as f32 evaluates it, one rounding per operation. *)
interpolate_f32(b, i, resolution) ==
    IF resolution <= 1 THEN <<b.s[1], b.t[1]>>
    ELSE <<F32Add(b.s[1], F32DivUsize(F32MulUsize(i % resolution, F32Sub(b.s[2], b.s[1])), resolution - 1)),
           F32Add(b.t[1], F32DivUsize(F32MulUsize(i \div resolution, F32Sub(b.t[2], b.t[1])), resolution - 1))>>

-----------------------------------------------------------------------------
(* Segment::intersects with T = I10F22 *)

(* Fractional bits of fixed::types::I10F22. *)
FracBits == 22

(* T::from_f32 of the fixed-point types: the multiple of 2^-FracBits       *)
(* nearest to x, ties to even; x >= 0 with x[1] * 2^FracBits in range.     *)
FixedFromF32(x) ==
    LET q == (x[1] * 2^FracBits) \div x[2]
        r == (x[1] * 2^FracBits) % x[2]
    IN  R(IF 2 * r > x[2] \/ (2 * r = x[2] /\ q % 2 = 1) THEN q + 1 ELSE q, 2^FracBits)

(* o.abs() < T::from_f32(1e-9).unwrap() *)
CollinearFixed(o) == RLt(RAbs(o), FixedFromF32(<<1, 1000000000>>))

(* The tests of intersects, in order, on the four orientations; sums and   *)
(* products of integer coordinates in reach are exact in I10F22.           *)
CrossOrTouchFixed(self, other, oa, ob, oc, od) ==
    \/ ProductNegative(oa, ob) /\ ProductNegative(oc, od)
    \/ CollinearFixed(oa) /\ on_segment(self.start, other.start, other.end)
    \/ CollinearFixed(ob) /\ on_segment(self.end, other.start, other.end)
    \/ CollinearFixed(oc) /\ on_segment(other.start, self.start, self.end)
    \/ CollinearFixed(od) /\ on_segment(other.end, self.start, self.end)

(* Segment::<I10F22>::intersects *)
intersects_fixed(self, other) ==
    CrossOrTouchFixed(self, other,
                      orient(other.start, other.end, self.start),
                      orient(other.start, other.end, self.end),
                      orient(self.start, self.end, other.start),
                      orient(self.start, self.end, other.end))

-----------------------------------------------------------------------------
(* Tessellate of the root crate (commands::Tessellate) *)

(* self.resolution - 1 on usize: with overflow checks (the dev profile) 0 - 1 *)
(* panics, without them (the release profile) it wraps to usize::MAX.         *)
ResolutionMinusOne(resolution, overflow_checks) ==
    IF resolution >= 1 THEN Some(resolution - 1)
    ELSE IF overflow_checks THEN [tag |-> "overflow"]
    ELSE [tag |-> "wrapped"]

(* The (s, t) of grid sample i in the closure of execute; denom is read    *)
(* only when resolution > 1, where it is resolution - 1.                   *)
GridSample(b, i, resolution, denom) ==
    <<IF resolution > 1
      THEN RAdd(b.s[1], RMul(R(i % resolution, denom.val), RSub(b.s[2], b.s[1])))
      ELSE b.s[1],
      IF resolution > 1
      THEN RAdd(b.t[1], RMul(R(i \div resolution, denom.val), RSub(b.t[2], b.t[1])))
      ELSE b.t[1]>>

-----------------------------------------------------------------------------
(* State *)

(* Longest sequence of mutating applications explored. *)
MaxEdits == 2
(* Largest tessellation resolution explored. *)
MaxRes == 2

(* Seed constructors of the caching single-crate layout. *)
ModelsSeeds == {"unit_square", "t_junction", "simple"}

ModelsSeedMesh(name) == IF name = "simple" THEN new_simple_v1 ELSE SeedMesh(name)

(* z-heights written by set_z. *)
Heights == {Zero, Half, One}

(* Parametric locations handed to the evaluator on the unit square. *)
EvalPoints == {<<Zero, Zero>>, <<One, Zero>>, <<One, One>>, <<Zero, One>>, <<Half, Half>>}

(* Largest s and t grid coordinates of the points handed to the geometry primitives. *)
MaxS == 3
MaxT == 2

(* Grid spacings: the unit grid, and a fine grid on which the orientation  *)
(* of three points that are not collinear can fall below 1e-9.             *)
Units == {One, <<1, 40000>>}

GridPoints(unit) ==
    IF unit = One
    THEN {ParamPoint(RInt(i), RInt(j)) : i \in 0..MaxS, j \in 0..MaxT}
    ELSE {ParamPoint(RMul(RInt(i), unit), RMul(RInt(j), unit)) : i \in 0..MaxT, j \in 0..MaxT}

GridSegments(unit) == {Segment(p, q) : p \in GridPoints(unit), q \in GridPoints(unit)}

(* Segments between integer points, representable in f64 and in I10F22. *)
FixedSegments ==
    LET pts == {ParamPoint(RInt(i), RInt(j)) : i \in 0..MaxT, j \in 0..MaxT}
    IN  {Segment(p, q) : p \in pts, q \in pts}

(* Most blocks written into one ObjWriter. *)
MaxBlocks == 3

(* Point sequences and triangle lists handed to the writer. *)
PointLists ==
    {<<>>, <<<<Zero, Zero, Zero>>>>, <<<<Zero, Zero, Zero>>, <<One, Zero, Half>>, <<Zero, One, One>>>>}
TriangleLists == {<<>>, <<<<0, 1, 2>>>>, <<<<0, 1, 2>>, <<2, 1, 0>>>>}

(* Largest grid resolution handed to Bounds::interpolate on its own. *)
MaxGrid == 4

(* The (min, max) pairs of the bounds handed to Bounds::interpolate. *)
Extents == {<<Zero, One>>, <<Zero, RInt(2)>>, <<Half, One>>, <<RInt(-1), RInt(3)>>}

(* The (min, max) pairs of the f32 bounds: [0, 1], [1, 2] and              *)
(* [0, 14757494 * 2^-23].                                                  *)
ExtentsF32 == {<<F32Zero, F32One>>, <<F32One, <<8388608, -22>>>>, <<F32Zero, <<14757494, -23>>>>}

VARIABLES
    cached,       \* TRUE: models::TSpline (mesh + knot_cache); FALSE: t_spline::TSpline (mesh)
    seed,         \* the seed constructor that built the wrapper
    mesh,         \* the wrapper's TMesh
    knot_cache,   \* the knot_cache field of models::TSpline; NoneV when there is no such field
    edits,        \* mutating applications so far
    last_result,  \* what the last mutating application returned
    sample,       \* the last value returned by the evaluator
    tess,         \* the Tessellate call in progress
    output,       \* the value returned by the last Tessellate call
    geo,          \* the operands and the result of the last geometry-primitive call
    writer        \* the ObjWriter being built

vars == <<cached, seed, mesh, knot_cache, edits, last_result, sample, tess, output, geo, writer>>

(* No geometry primitive called yet; no writer constructed. *)
NoGeo == [call |-> "none"]
NoWriter == [obj |-> <<>>, vertex_count |-> 0]

NoSample == [at |-> <<>>, val |-> Empty]

InitWrapper ==
    /\ edits = 0
    /\ last_result = "none"
    /\ sample = NoSample
    /\ tess = TessIdle
    /\ output = NoneV
    /\ geo = NoGeo
    /\ writer = NoWriter

(* A wrapper fresh from one of the seed constructors. *)
Init ==
    /\ cached \in BOOLEAN
    /\ seed \in IF cached THEN ModelsSeeds ELSE Seeds
    /\ mesh = IF cached THEN ModelsSeedMesh(seed) ELSE SeedMesh(seed)
    /\ knot_cache = IF cached THEN build_knot_cache(mesh) ELSE NoneV
    /\ InitWrapper

(* The closures applied to a mesh m. *)
Ops(m) ==
    {Op("set_z", 0, One), Op("err", 0, Zero)}
        \cup {Op(k, v, Zero) : k \in {"move", "move_err"}, v \in DOMAIN m.vertices}

Perform(op) ==
    /\ cached
    /\ edits < MaxEdits
    /\ \E r \in {perform(mesh, knot_cache, op)} :
           /\ mesh' = r.mesh
           /\ knot_cache' = r.knot_cache
           /\ last_result' = r.res
    /\ edits' = edits + 1
    /\ UNCHANGED <<cached, seed, sample, tess, output>>
    /\ UNCHANGED <<geo, writer>>

ApplyMut(op) ==
    /\ ~cached
    /\ edits < MaxEdits
    /\ \E r \in {apply_mut(mesh, op)} :
           /\ mesh' = r.mesh
           /\ last_result' = r.res
    /\ edits' = edits + 1
    /\ UNCHANGED <<cached, seed, knot_cache, sample, tess, output>>
    /\ UNCHANGED <<geo, writer>>

Next ==
    \/ \E op \in Ops(mesh) : Perform(op)
    \/ \E op \in Ops(mesh) : ApplyMut(op)

Spec == Init /\ [][Next]_vars

-----------------------------------------------------------------------------
(* Evaluation of the unit square under arbitrary heights *)

InitEval ==
    /\ cached = FALSE
    /\ seed = "unit_square"
    /\ mesh = new_unit_square
    /\ knot_cache = NoneV
    /\ InitWrapper

SetHeight(v, z) ==
    /\ mesh' = apply_mut(mesh, Op("set_z", v, z)).mesh
    /\ mesh' # mesh
    /\ last_result' = "ok"
    /\ sample' = NoSample
    /\ UNCHANGED <<cached, seed, knot_cache, edits, tess, output>>
    /\ UNCHANGED <<geo, writer>>

(* knot_vectors, then subs at one parametric location. *)
Evaluate(p) ==
    /\ \E kv \in {knot_vectors(mesh)} :
           sample' = [at |-> p, val |-> subs(mesh, p[1], p[2], kv.val)]
    /\ UNCHANGED <<cached, seed, mesh, knot_cache, edits, last_result, tess, output>>
    /\ UNCHANGED <<geo, writer>>

NextEval ==
    \/ \E v \in DOMAIN mesh.vertices, z \in Heights : SetHeight(v, z)
    \/ \E p \in EvalPoints : Evaluate(p)

SpecEval == InitEval /\ [][NextEval]_vars

-----------------------------------------------------------------------------
(* Tessellate with its per-sample tasks finishing in any order *)

(* The meshes handed to Tessellate: each seed, as built and with the weight *)
(* of vertex 0 set to zero.                                                 *)
InitTess ==
    /\ cached = FALSE
    /\ seed \in Seeds
    /\ mesh \in {SeedMesh(seed), apply_mut(SeedMesh(seed), Op("set_w", 0, Zero)).mesh}
    /\ knot_cache = NoneV
    /\ InitWrapper

(* Tessellate::execute up to the parallel iterator: bounds and knot vectors. *)
TessellateStart(n) ==
    /\ tess.status = "idle"
    /\ \E kv \in {knot_vectors(mesh)} :
           tess' = IF kv.tag # "some" THEN [TessIdle EXCEPT !.status = kv.tag]
                   ELSE [status |-> "running", resolution |-> n,
                         bounds |-> add_mesh(BoundsDefault, mesh),
                         knot_cache |-> kv.val,
                         pending |-> 0..(n * n - 1),
                         slots |-> [i \in 0..(n * n - 1) |-> Empty]]
    /\ output' = NoneV
    /\ UNCHANGED <<cached, seed, mesh, knot_cache, edits, last_result, sample>>
    /\ UNCHANGED <<geo, writer>>

(* One task of the parallel map: evaluate grid sample i. *)
SampleDone(i) ==
    /\ tess.status = "running"
    /\ i \in tess.pending
    /\ \E p \in {interpolate(tess.bounds, i, tess.resolution)} :
           tess' = [tess EXCEPT !.pending = @ \ {i}, !.slots = Place(@, i, subs(mesh, p[1], p[2], tess.knot_cache))]
    /\ UNCHANGED <<cached, seed, mesh, knot_cache, edits, last_result, sample, output>>
    /\ UNCHANGED <<geo, writer>>

(* All tasks joined: the collected vector is returned. *)
TessellateCollect ==
    /\ tess.status = "running"
    /\ tess.pending = {}
    /\ output' = Some([resolution |-> tess.resolution, points |-> Collect(tess.slots, 0)])
    /\ tess' = TessIdle
    /\ UNCHANGED <<cached, seed, mesh, knot_cache, edits, last_result, sample>>
    /\ UNCHANGED <<geo, writer>>

NextTess ==
    \/ \E n \in 0..MaxRes : TessellateStart(n)
    \/ \E i \in 0..(MaxRes * MaxRes - 1) : SampleDone(i)
    \/ TessellateCollect

SpecTess == InitTess /\ [][NextTess]_vars

-----------------------------------------------------------------------------
(* Evaluation of the T-junction seed at the centres of its faces *)

InitSym ==
    /\ cached = FALSE
    /\ seed = "t_junction"
    /\ mesh = new_t_junction
    /\ knot_cache = NoneV
    /\ InitWrapper

(* apply_mut with a closure that writes the z of one control point. *)
Lift(v, z) ==
    /\ mesh' = apply_mut(mesh, Op("set_z", v, z)).mesh
    /\ mesh' # mesh
    /\ last_result' = "ok"
    /\ sample' = NoSample
    /\ UNCHANGED <<cached, seed, knot_cache, edits, tess, output, geo, writer>>

(* The sample at the centre c of a face's parametric bounding box. *)
CentreSample(m, f, c, kv) ==
    [at |-> c, face |-> f,
     val |-> IF kv.tag = "some" THEN subs(m, c[1], c[2], kv.val) ELSE kv]

(* knot_vectors, the bounds of face f, then subs at their centre. *)
EvaluateCentre(f) ==
    /\ \E b \in {add_face(BoundsDefault, mesh, f)} :
           /\ b.tag = "some"
           /\ sample' = CentreSample(mesh, f, center(b.val), knot_vectors(mesh))
    /\ UNCHANGED <<cached, seed, mesh, knot_cache, edits, last_result, tess, output, geo, writer>>

NextSym ==
    \/ \E v \in DOMAIN mesh.vertices, z \in {Zero, Half} : Lift(v, z)
    \/ \E f \in {1, 2} : EvaluateCentre(f)

SpecSym == InitSym /\ [][NextSym]_vars

-----------------------------------------------------------------------------
(* validate_asts on the seeds and on a mesh with crossing extensions *)

AstsMeshes == ModelsSeeds \cup {"rounded_cube", "crossing"}

AstsMesh(name) ==
    IF name = "crossing" THEN CrossingMesh
    ELSE IF name = "rounded_cube" THEN new_rounded_cube
    ELSE ModelsSeedMesh(name)

InitAsts ==
    /\ cached = TRUE
    /\ seed \in AstsMeshes
    /\ mesh = AstsMesh(seed)
    /\ knot_cache = build_knot_cache(mesh)
    /\ InitWrapper

ValidateAsts ==
    /\ geo' = [call |-> "validate_asts", edits |-> edits, result |-> validate_asts(mesh)]
    /\ UNCHANGED <<cached, seed, mesh, knot_cache, edits, last_result, sample, tess, output, writer>>

NextAsts ==
    \/ \E op \in Ops(mesh) : Perform(op)
    \/ ValidateAsts

SpecAsts == InitAsts /\ [][NextAsts]_vars

-----------------------------------------------------------------------------
(* Calls of the geometry primitives on grid inputs *)

(* The operands of one call, drawn from the grids. *)
InitGeo ==
    /\ cached = FALSE
    /\ seed = "unit_square"
    /\ mesh = new_unit_square
    /\ knot_cache = NoneV
    /\ edits = 0
    /\ last_result = "none"
    /\ sample = NoSample
    /\ tess = TessIdle
    /\ output = NoneV
    /\ writer = NoWriter
    /\ \E unit \in Units : \E a \in GridSegments(unit), b \in GridSegments(unit) :
           geo = [call |-> "operands", a |-> a, b |-> b]

Intersects ==
    /\ geo.call = "operands"
    /\ geo' = [call |-> "intersects", a |-> geo.a, b |-> geo.b, result |-> intersects(geo.a, geo.b)]
    /\ UNCHANGED <<cached, seed, mesh, knot_cache, edits, last_result, sample, tess, output, writer>>

NextGeo ==
    \/ Intersects

SpecGeo == InitGeo /\ [][NextGeo]_vars

-----------------------------------------------------------------------------
(* SplitFace applied to the seeds *)

InitSplit ==
    /\ cached = FALSE
    /\ seed \in ModelsSeeds
    /\ mesh = ModelsSeedMesh(seed)
    /\ knot_cache = NoneV
    /\ InitWrapper

(* apply_mut of a SplitFace command; geo keeps the command and the mesh it *)
(* was applied to. A call that fails leaves nothing to go on with.         *)
SplitFace(face, direction) ==
    /\ edits < MaxEdits
    /\ last_result \in {"none", "ok"}
    /\ \E r \in {split_face(mesh, face, direction)} :
           /\ mesh' = IF IsSome(r) THEN r.val ELSE mesh
           /\ last_result' = IF IsSome(r) THEN "ok" ELSE r.tag
    /\ geo' = [call |-> "split_face", face |-> face, direction |-> direction, before |-> mesh]
    /\ edits' = edits + 1
    /\ UNCHANGED <<cached, seed, knot_cache, sample, tess, output, writer>>

NextSplit ==
    \/ \E face \in DOMAIN mesh.faces, direction \in {"S", "T"} : SplitFace(face, direction)

SpecSplit == InitSplit /\ [][NextSplit]_vars

-----------------------------------------------------------------------------
(* find_edge and Bounds::area called on the seeds *)

FindEdge(u, v) ==
    /\ geo' = [call |-> "find_edge", v_start |-> u, v_end |-> v, result |-> find_edge(mesh, u, v)]
    /\ UNCHANGED <<cached, seed, mesh, knot_cache, edits, last_result, sample, tess, output, writer>>

(* Bounds::default, add_face of one face, then area. *)
FaceArea(face) ==
    /\ \E b \in {add_face(BoundsDefault, mesh, face)} :
           /\ IsSome(b)
           /\ geo' = [call |-> "area", face |-> face, bounds |-> b.val, result |-> area(b.val)]
    /\ UNCHANGED <<cached, seed, mesh, knot_cache, edits, last_result, sample, tess, output, writer>>

NextFind ==
    \/ \E u \in DOMAIN mesh.vertices, v \in DOMAIN mesh.vertices : FindEdge(u, v)
    \/ \E face \in DOMAIN mesh.faces : FaceArea(face)

SpecFind == InitSplit /\ [][NextFind]_vars

-----------------------------------------------------------------------------
(* An ObjWriter filled block by block *)

InitObj ==
    /\ cached = FALSE
    /\ seed = "unit_square"
    /\ mesh = new_unit_square
    /\ knot_cache = NoneV
    /\ InitWrapper

Blocks == Cardinality({i \in 1..Len(writer.obj) : writer.obj[i][1] = "o"})

WithPoints(points) ==
    /\ Blocks < MaxBlocks
    /\ writer' = with_points(writer, "points", points)
    /\ UNCHANGED <<cached, seed, mesh, knot_cache, edits, last_result, sample, tess, output, geo>>

WithTriangles(points, triangles) ==
    /\ Blocks < MaxBlocks
    /\ writer' = with_triangles(writer, "triangles", points, triangles)
    /\ UNCHANGED <<cached, seed, mesh, knot_cache, edits, last_result, sample, tess, output, geo>>

(* The block is named after the constructor of the mesh it holds. *)
WithControlSurface(name) ==
    /\ Blocks < MaxBlocks
    /\ writer' = with_control_surface(writer, name, SeedMesh(name))
    /\ UNCHANGED <<cached, seed, mesh, knot_cache, edits, last_result, sample, tess, output, geo>>

NextObj ==
    \/ \E points \in PointLists : WithPoints(points)
    \/ \E triangles \in TriangleLists : \E points \in {q \in PointLists : Len(q) = 3} : WithTriangles(points, triangles)
    \/ \E name \in Seeds : WithControlSurface(name)

SpecObj == InitObj /\ [][NextObj]_vars

-----------------------------------------------------------------------------
(* Knot inference called on the seeds *)

TraceKnots(v, axis, positive) ==
    /\ geo' = [call |-> "trace_knots", v |-> v, axis |-> axis, positive |-> positive,
               result |-> trace_knots(mesh, v, axis, positive)]
    /\ UNCHANGED <<cached, seed, mesh, knot_cache, edits, last_result, sample, tess, output, writer>>

FindNextVertex(v, axis, positive) ==
    /\ geo' = [call |-> "find_next_vertex_in_direction", v |-> v, axis |-> axis,
               positive |-> positive,
               result |-> find_next_vertex_in_direction(mesh, v, axis, positive)]
    /\ UNCHANGED <<cached, seed, mesh, knot_cache, edits, last_result, sample, tess, output, writer>>

InferLocalKnots(v) ==
    /\ geo' = [call |-> "infer_local_knots", v |-> v, result |-> infer_local_knots(mesh, v)]
    /\ UNCHANGED <<cached, seed, mesh, knot_cache, edits, last_result, sample, tess, output, writer>>

NextKnots ==
    \/ \E v \in DOMAIN mesh.vertices, axis \in {"S", "T"}, positive \in BOOLEAN :
           TraceKnots(v, axis, positive)
    \/ \E v \in DOMAIN mesh.vertices, axis \in {"S", "T"}, positive \in BOOLEAN :
           FindNextVertex(v, axis, positive)
    \/ \E v \in DOMAIN mesh.vertices : InferLocalKnots(v)

SpecKnots == Init /\ [][NextKnots]_vars

-----------------------------------------------------------------------------
(* Bounds::interpolate called on its own *)

(* The bounds, the resolution and the index of one call. For a resolution  *)
(* of 0 or 1 the indices 0 and 1 are tried.                                *)
InitGrid ==
    /\ cached = FALSE
    /\ seed = "unit_square"
    /\ mesh = new_unit_square
    /\ knot_cache = NoneV
    /\ edits = 0
    /\ last_result = "none"
    /\ sample = NoSample
    /\ tess = TessIdle
    /\ output = NoneV
    /\ writer = NoWriter
    /\ \E n \in 0..MaxGrid :
           \E i \in 0..(IF n <= 1 THEN 1 ELSE n * n - 1) :
               \/ \E s \in Extents, t \in Extents :
                      geo = [call |-> "grid", bounds |-> [s |-> s, t |-> t], i |-> i, resolution |-> n]
               \/ \E s \in ExtentsF32, t \in ExtentsF32 :
                      geo = [call |-> "grid_f32", bounds |-> [s |-> s, t |-> t], i |-> i, resolution |-> n]

Interpolate ==
    /\ geo.call = "grid"
    /\ geo' = [call |-> "interpolate", bounds |-> geo.bounds, i |-> geo.i,
               resolution |-> geo.resolution,
               result |-> interpolate(geo.bounds, geo.i, geo.resolution)]
    /\ UNCHANGED <<cached, seed, mesh, knot_cache, edits, last_result, sample, tess, output, writer>>

InterpolateF32 ==
    /\ geo.call = "grid_f32"
    /\ geo' = [call |-> "interpolate_f32", bounds |-> geo.bounds, i |-> geo.i,
               resolution |-> geo.resolution,
               result |-> interpolate_f32(geo.bounds, geo.i, geo.resolution)]
    /\ UNCHANGED <<cached, seed, mesh, knot_cache, edits, last_result, sample, tess, output, writer>>

NextGrid ==
    \/ Interpolate
    \/ InterpolateF32

SpecGrid == InitGrid /\ [][NextGrid]_vars

-----------------------------------------------------------------------------
(* Segment::intersects called with the fixed-point scalar *)

InitFixed ==
    /\ cached = FALSE
    /\ seed = "unit_square"
    /\ mesh = new_unit_square
    /\ knot_cache = NoneV
    /\ edits = 0
    /\ last_result = "none"
    /\ sample = NoSample
    /\ tess = TessIdle
    /\ output = NoneV
    /\ writer = NoWriter
    /\ \E a \in FixedSegments, b \in FixedSegments :
           geo = [call |-> "operands_fixed", a |-> a, b |-> b]

IntersectsFixed ==
    /\ geo.call = "operands_fixed"
    /\ geo' = [call |-> "intersects_fixed", a |-> geo.a, b |-> geo.b,
               result |-> intersects_fixed(geo.a, geo.b)]
    /\ UNCHANGED <<cached, seed, mesh, knot_cache, edits, last_result, sample, tess, output, writer>>

NextFixed ==
    \/ IntersectsFixed

SpecFixed == InitFixed /\ [][NextFixed]_vars

-----------------------------------------------------------------------------
(* Tessellate of the root crate applied to its seeds *)

InitTessModels ==
    /\ cached = TRUE
    /\ seed \in ModelsSeeds
    /\ mesh \in {ModelsSeedMesh(seed), apply_mut(ModelsSeedMesh(seed), Op("set_w", 0, Zero)).mesh}
    /\ knot_cache = build_knot_cache(mesh)
    /\ InitWrapper

(* execute up to the parallel iterator: bounds, knot vectors, denom. The   *)
(* build profile decides what resolution - 1 does at resolution 0.         *)
ModelsTessellateStart(n, overflow_checks) ==
    /\ tess.status = "idle"
    /\ \E kv \in {knot_vectors(mesh)}, denom \in {ResolutionMinusOne(n, overflow_checks)} :
           tess' = IF kv.tag # "some" THEN [TessIdle EXCEPT !.status = kv.tag]
                   ELSE IF denom.tag = "overflow" THEN [TessIdle EXCEPT !.status = "overflow"]
                   ELSE [status |-> "running", resolution |-> n,
                         bounds |-> add_mesh(BoundsDefault, mesh),
                         knot_cache |-> kv.val,
                         denom |-> denom,
                         pending |-> 0..(n * n - 1),
                         slots |-> [i \in 0..(n * n - 1) |-> Empty]]
    /\ output' = NoneV
    /\ UNCHANGED <<cached, seed, mesh, knot_cache, edits, last_result, sample>>
    /\ UNCHANGED <<geo, writer>>

(* One task of the parallel map: evaluate grid sample i. *)
ModelsSampleDone(i) ==
    /\ tess.status = "running"
    /\ i \in tess.pending
    /\ \E p \in {GridSample(tess.bounds, i, tess.resolution, tess.denom)} :
           tess' = [tess EXCEPT !.pending = @ \ {i}, !.slots = Place(@, i, subs(mesh, p[1], p[2], tess.knot_cache))]
    /\ UNCHANGED <<cached, seed, mesh, knot_cache, edits, last_result, sample, output>>
    /\ UNCHANGED <<geo, writer>>

NextTessModels ==
    \/ \E n \in 0..MaxRes, overflow_checks \in BOOLEAN : ModelsTessellateStart(n, overflow_checks)
    \/ \E i \in 0..(MaxRes * MaxRes - 1) : ModelsSampleDone(i)
    \/ TessellateCollect

SpecTessModels == InitTessModels /\ [][NextTessModels]_vars

-----------------------------------------------------------------------------
(* Properties of the seed meshes and of the wrapper *)

(* A wrapper as a seed constructor returned it. *)
Fresh == edits = 0

HalfEdgeLinks(m, e) ==
    /\ m.edges[e].next \in DOMAIN m.edges
    /\ m.edges[e].prev \in DOMAIN m.edges
    /\ m.edges[m.edges[e].prev].next = e
    /\ m.edges[m.edges[e].next].prev = e
    /\ m.edges[e].twin # None =>
          /\ m.edges[e].twin \in DOMAIN m.edges
          /\ m.edges[m.edges[e].twin].twin = e
          /\ m.edges[m.edges[e].twin].origin = m.edges[m.edges[e].next].origin

(* C1: in every mesh a seed constructor returns, every half-edge e has       *)
(* next(prev(e)) = e and prev(next(e)) = e, and when twin(e) is present,     *)
(* twin(twin(e)) = e and origin(twin(e)) = origin(next(e)).                  *)
C1_HalfEdgeInvariants ==
    Fresh => \A e \in DOMAIN mesh.edges : HalfEdgeLinks(mesh, e)

(* The rounded cube as built: half-edges with and without a twin. *)
C1_Witness ==
    /\ Fresh
    /\ seed = "rounded_cube"
    /\ \E e \in DOMAIN mesh.edges : mesh.edges[e].twin = None
    /\ \E e \in DOMAIN mesh.edges : mesh.edges[e].twin # None

(* c is repeated four times at one end of the knot vector k. *)
FourFold(k, c) ==
    \/ \A j \in 1..4 : k[j] = c
    \/ \A j \in 2..5 : k[j] = c

BoundaryKnots(m, b, v, r) ==
    /\ r.tag = "some"
    /\ (m.vertices[v].uv.s \in {b.s[1], b.s[2]}) => FourFold(r.val[1], m.vertices[v].uv.s)
    /\ (m.vertices[v].uv.t \in {b.t[1], b.t[2]}) => FourFold(r.val[2], m.vertices[v].uv.t)

OnBoundary(m, b, v) ==
    \/ m.vertices[v].uv.s \in {b.s[1], b.s[2]}
    \/ m.vertices[v].uv.t \in {b.t[1], b.t[2]}

(* C2: for every vertex of every seed mesh on the parametric boundary of    *)
(* the mesh, the knot vector infer_local_knots returns for that axis has    *)
(* the vertex's own coordinate four times at one end.                       *)
C2_BoundaryMultiplicity ==
    Fresh =>
        \A v \in DOMAIN mesh.vertices :
            OnBoundary(mesh, add_mesh(BoundsDefault, mesh), v) =>
                BoundaryKnots(mesh, add_mesh(BoundsDefault, mesh), v,
                              infer_local_knots(mesh, v))

(* The knot vector of a corner whose coordinate is c in a mesh spanning lo..hi. *)
OpenKnots(c, lo, hi) == IF c = lo THEN <<c, c, c, c, hi>> ELSE <<lo, c, c, c, c>>

UnitSquareKnots(m, v, r) ==
    /\ r.tag = "some"
    /\ r.val[1] = OpenKnots(m.vertices[v].uv.s, Zero, One)
    /\ r.val[2] = OpenKnots(m.vertices[v].uv.t, Zero, One)
    /\ v = 0 => r.val = <<<<Zero, Zero, Zero, Zero, One>>, <<Zero, Zero, Zero, Zero, One>>>>

(* C3: on the unit square infer_local_knots gives every corner open knot    *)
(* vectors: the vertex's own coordinate four times and the opposite         *)
(* boundary once; for vertex 0 both are [0,0,0,0,1].                        *)
C3_UnitSquareKnots ==
    (Fresh /\ seed = "unit_square") =>
        \A v \in DOMAIN mesh.vertices : UnitSquareKnots(mesh, v, infer_local_knots(mesh, v))

C3_Witness ==
    /\ Fresh
    /\ seed = "unit_square"
    /\ ~cached
    /\ infer_local_knots(mesh, 2).tag = "some"
    /\ infer_local_knots(mesh, 2).val[1] = <<Zero, One, One, One, One>>

(* C7: after any sequence of mutating applications, including ones whose    *)
(* operation changes the mesh and then returns an error, the knot vectors a *)
(* read obtains are those inferred from the current mesh, one per vertex.   *)
(* The cache-less wrapper infers them at the read; the caching wrapper      *)
(* hands out its knot_cache field.                                          *)
C7_NoStaleKnots ==
    cached =>
        /\ knot_cache = build_knot_cache(mesh)
        /\ DOMAIN knot_cache.val = DOMAIN mesh.vertices

NoDuplicates(seq) == \A i, j \in 1..Len(seq) : i # j => seq[i] # seq[j]

FaceLoop(m, f, r) ==
    /\ r.tag = "some"
    /\ Len(r.val) >= 1
    /\ r.val[1] = m.faces[f].edge
    /\ \A k \in 1..(Len(r.val) - 1) : r.val[k + 1] = m.edges[r.val[k]].next
    /\ NoDuplicates(r.val)
    /\ {r.val[k] : k \in 1..Len(r.val)} = {e \in DOMAIN m.edges : m.edges[e].face = f}

(* A half-edge running clockwise along the parametric boundary of the mesh: *)
(* the face it borders lies outside.                                        *)
OuterBoundary(m, b, e) ==
    LET o == m.vertices[m.edges[e].origin].uv
        d == m.vertices[m.edges[m.edges[e].next].origin].uv
    IN  \/ o.t = b.t[1] /\ d.t = b.t[1] /\ RLt(d.s, o.s)
        \/ o.s = b.s[2] /\ d.s = b.s[2] /\ RLt(d.t, o.t)
        \/ o.t = b.t[2] /\ d.t = b.t[2] /\ RGt(d.s, o.s)
        \/ o.s = b.s[1] /\ d.s = b.s[1] /\ RGt(d.t, o.t)

(* C9: for every face f of every seed mesh, face_edges(f) returns a list    *)
(* that starts with the face's edge, follows next, repeats no half-edge and *)
(* holds exactly the half-edges whose face handle is f (4 on the unit       *)
(* square); the half-edges of the outer boundary loop carry no face.        *)
C9_FaceEdges ==
    Fresh =>
        /\ \A f \in DOMAIN mesh.faces : FaceLoop(mesh, f, face_edges(mesh, f))
        /\ seed = "unit_square" => Len(face_edges(mesh, 0).val) = 4
        /\ \A e \in DOMAIN mesh.edges :
              OuterBoundary(mesh, add_mesh(BoundsDefault, mesh), e) =>
                  mesh.edges[e].face = None

(* The T-junction seed: a five-sided face and an outer loop. *)
C9_Witness ==
    /\ Fresh
    /\ seed = "t_junction"
    /\ Len(face_edges(mesh, 0).val) = 5
    /\ \E e \in DOMAIN mesh.edges : OuterBoundary(mesh, add_mesh(BoundsDefault, mesh), e)

(* The spoke rotation e -> twin(prev(e)) from the outgoing edge of v:       *)
(* "closed" when it comes back to the start through half-edges leaving v.   *)
RECURSIVE SpokeRotation(_, _, _, _)
SpokeRotation(m, v, e, steps) ==
    IF m.edges[e].origin # v THEN "strays"
    ELSE IF m.edges[m.edges[e].prev].twin = None THEN "missing twin"
    ELSE IF m.edges[m.edges[e].prev].twin = m.vertices[v].outgoing_edge THEN "closed"
    ELSE IF steps > TLen(m.edges) THEN "endless"
    ELSE SpokeRotation(m, v, m.edges[m.edges[e].prev].twin, steps + 1)

(* C10: for every vertex with an outgoing edge, in every seed mesh, the     *)
(* spoke rotation e -> twin(prev(e)) from the outgoing edge returns to it   *)
(* after finitely many steps, through half-edges leaving the vertex only    *)
(* and without meeting a missing twin.                                      *)
C10_SpokeRotationCloses ==
    Fresh =>
        \A v \in DOMAIN mesh.vertices :
            mesh.vertices[v].outgoing_edge # None =>
                SpokeRotation(mesh, v, mesh.vertices[v].outgoing_edge, 0) = "closed"

-----------------------------------------------------------------------------
(* Properties of the evaluator and of Tessellate *)

Xyz(geometry) == <<geometry[1], geometry[2], geometry[3]>>

HeightsAre(m, z0, z1, z2, z3) ==
    /\ m.vertices[0].geometry[3] = z0
    /\ m.vertices[1].geometry[3] = z1
    /\ m.vertices[2].geometry[3] = z2
    /\ m.vertices[3].geometry[3] = z3

(* C4: on the unit square, evaluating at the parametric location of a       *)
(* corner vertex returns that vertex's (x, y, z), whatever the heights; with *)
(* the default heights the corners evaluate to (s, t, 0), and with only     *)
(* vertex 0 raised to 1 the origin evaluates to (0, 0, 1) and (1, 1) keeps  *)
(* z = 0.                                                                   *)
C4_CornersInterpolated ==
    sample # NoSample =>
        /\ \A v \in DOMAIN mesh.vertices :
              sample.at = <<mesh.vertices[v].uv.s, mesh.vertices[v].uv.t>> =>
                  sample.val = Some(Xyz(mesh.vertices[v].geometry))
        /\ (HeightsAre(mesh, Zero, Zero, Zero, Zero) /\ sample.at # <<Half, Half>>) =>
              sample.val = Some(<<sample.at[1], sample.at[2], Zero>>)
        /\ (HeightsAre(mesh, One, Zero, Zero, Zero) /\ sample.at = <<Zero, Zero>>) =>
              sample.val = Some(<<Zero, Zero, One>>)
        /\ (HeightsAre(mesh, One, Zero, Zero, Zero) /\ sample.at = <<One, One>>) =>
              sample.val = Some(<<One, One, Zero>>)

(* Vertex 2 evaluated at (1, 1), with heights that differ at every corner. *)
C4_Witness ==
    /\ HeightsAre(mesh, One, Half, One, Zero)
    /\ sample.at = <<One, One>>
    /\ sample.val = Some(<<One, One, One>>)

(* C5: on the unit square with its default geometry, Tessellate at          *)
(* resolution n >= 1 returns n * n points, and at n = 2 returns             *)
(* [(0,0,0), (1,0,0), (0,1,0), (1,1,0)] in that order.                      *)
C5_UnitSquareGrid ==
    (mesh = new_unit_square /\ output.tag = "some" /\ output.val.resolution >= 1) =>
        /\ Len(output.val.points) = output.val.resolution * output.val.resolution
        /\ output.val.resolution = 2 =>
              output.val.points = <<<<Zero, Zero, Zero>>, <<One, Zero, Zero>>,
                                    <<Zero, One, Zero>>, <<One, One, Zero>>>>

C5_Witness ==
    /\ mesh = new_unit_square
    /\ output.tag = "some"
    /\ output.val.resolution = 2
    /\ Len(output.val.points) = 4

(* Grid sample i of a Tessellate call at resolution n on m, evaluated alone. *)
GridAccumulate(m, n, i, kv) ==
    Accumulate(m, interpolate(add_mesh(BoundsDefault, m), i, n)[1],
               interpolate(add_mesh(BoundsDefault, m), i, n)[2], kv.val)

Defined(m, n, kv) ==
    {i \in 0..(n * n - 1) : ~LtTol(RAbs(GridAccumulate(m, n, i, kv)[2]), 9)}

(* The defined samples in increasing grid index. *)
RECURSIVE InGridOrder(_, _, _, _)
InGridOrder(m, n, i, kv) ==
    IF i >= n * n THEN <<>>
    ELSE IF i \in Defined(m, n, kv)
    THEN <<Rationalize(GridAccumulate(m, n, i, kv)).val>> \o InGridOrder(m, n, i + 1, kv)
    ELSE InGridOrder(m, n, i + 1, kv)

(* C6: the sequence Tessellate returns lists the defined grid samples in    *)
(* increasing row-major grid index, whatever the order in which the         *)
(* per-sample tasks completed.                                              *)
C6_RowMajorOrder ==
    output.tag = "some" =>
        output.val.points = InGridOrder(mesh, output.val.resolution, 0, knot_vectors(mesh))

(* The T-junction seed tessellated at resolution 2: four distinct points. *)
C6_Witness ==
    /\ seed = "t_junction"
    /\ output.tag = "some"
    /\ output.val.resolution = 2
    /\ Len(output.val.points) = 4
    /\ output.val.points[2] # output.val.points[3]

(* C8: a grid sample is in the output iff the denominator of the rational   *)
(* sum there has magnitude at least 1e-9; a sample below that yields no     *)
(* point and no stand-in, so the output holds between 0 and n * n points.   *)
C8_UndefinedDropped ==
    /\ (tess.status = "running" /\ tess.pending = {}) =>
          \A i \in DOMAIN tess.slots :
              IF i \in Defined(mesh, tess.resolution, [val |-> tess.knot_cache])
              THEN tess.slots[i].tag = "some"
              ELSE tess.slots[i] = NoneV
    /\ output.tag = "some" =>
          /\ Len(output.val.points) =
                Cardinality(Defined(mesh, output.val.resolution, knot_vectors(mesh)))
          /\ Len(output.val.points) <= output.val.resolution * output.val.resolution
          /\ \A k \in 1..Len(output.val.points) :
                \E i \in Defined(mesh, output.val.resolution, knot_vectors(mesh)) :
                    output.val.points[k] =
                        Rationalize(GridAccumulate(mesh, output.val.resolution, i,
                                                   knot_vectors(mesh))).val

(* A call that dropped some samples and kept others. *)
C8_Witness ==
    /\ output.tag = "some"
    /\ output.val.resolution = 2
    /\ Len(output.val.points) \in 1..3

-----------------------------------------------------------------------------
(* Properties of the geometry primitives *)

Swapped(seg) == Segment(seg.end, seg.start)

(* C11: intersects gives the same answer with its two segments exchanged   *)
(* and with the start and end of either segment swapped, degenerate        *)
(* single-point segments included.                                         *)
C11_IntersectsSymmetric ==
    geo.call = "intersects" =>
        /\ geo.result = intersects(geo.b, geo.a)
        /\ geo.result = intersects(Swapped(geo.a), geo.b)
        /\ geo.result = intersects(geo.a, Swapped(geo.b))
        /\ geo.result = intersects(Swapped(geo.a), Swapped(geo.b))

(* A T-touch found only by the last test of intersects: the end of b lies on a. *)
C11_Witness ==
    /\ geo.call = "intersects"
    /\ geo.a = Segment(ParamPoint(Zero, Zero), ParamPoint(RInt(2), Zero))
    /\ geo.b = Segment(ParamPoint(One, One), ParamPoint(One, Zero))
    /\ geo.result

(* Exact comparisons of rationals through the sign of the difference. *)
Leq(x, y) == RSub(x, y)[1] <= 0
dot(a, b) == RAdd(RMul(a.s, b.s), RMul(a.t, b.t))
IsZeroVec(d) == d.s[1] = 0 /\ d.t[1] = 0

(* 0 <= num / det <= 1 for det # 0 *)
UnitFraction(num, det) ==
    IF det[1] > 0 THEN num[1] >= 0 /\ Leq(num, det) ELSE num[1] <= 0 /\ Leq(det, num)

(* The point c + w lies on the closed segment from c along d, d # 0. *)
PointOn(w, d) == cross(w, d)[1] = 0 /\ UnitFraction(dot(w, d), dot(d, d))

(* Two collinear segments along d1 overlap: the interval spanned by the    *)
(* projections tc, td of the second meets [0, len].                        *)
Overlap(tc, td, len) ==
    /\ ~(tc[1] < 0 /\ td[1] < 0)
    /\ ~(~Leq(tc, len) /\ ~Leq(td, len))

(* The closed segments A + u d1 and C + v d2 (0 <= u, v <= 1, w = C - A)   *)
(* have a common point.                                                    *)
Meet(d1, d2, w, det) ==
    IF det[1] # 0 THEN UnitFraction(cross(w, d2), det) /\ UnitFraction(cross(w, d1), det)
    ELSE IF IsZeroVec(d1) /\ IsZeroVec(d2) THEN IsZeroVec(w)
    ELSE IF IsZeroVec(d1) THEN PointOn(PointSub(ParamPoint(Zero, Zero), w), d2)
    ELSE IF IsZeroVec(d2) THEN PointOn(w, d1)
    ELSE /\ cross(w, d1)[1] = 0
         /\ Overlap(dot(w, d1), dot(ParamPoint(RAdd(w.s, d2.s), RAdd(w.t, d2.t)), d1), dot(d1, d1))

SharePoint(a, b) ==
    Meet(PointSub(a.end, a.start), PointSub(b.end, b.start), PointSub(b.start, a.start),
         cross(PointSub(a.end, a.start), PointSub(b.end, b.start)))

Seg(s1, t1, s2, t2) == Segment(ParamPoint(RInt(s1), RInt(t1)), ParamPoint(RInt(s2), RInt(t2)))

(* The crossing and the disjoint pairs of the segment tests. *)
CrossingCases ==
    {<<Seg(0, 0, 1, 0), Seg(0, 0, 1, 0)>>, <<Seg(0, 0, 2, 2), Seg(0, 2, 2, 0)>>,
     <<Seg(0, 0, 2, 0), Seg(1, 0, 1, 2)>>, <<Seg(0, 0, 1, 1), Seg(1, 1, 2, 0)>>,
     <<Seg(0, 0, 2, 0), Seg(1, 0, 3, 0)>>}
DisjointCases ==
    {<<Seg(0, 0, 1, 0), Seg(0, 1, 1, 1)>>, <<Seg(0, 0, 1, 0), Seg(2, 0, 3, 0)>>,
     <<Seg(0, 0, 1, 1), Seg(2, 2, 3, 2)>>}

(* Some endpoint has a nonzero orientation below 1e-9 against the other segment. *)
NearCollinear(a, b) ==
    \E o \in {orient(b.start, b.end, a.start), orient(b.start, b.end, a.end),
              orient(a.start, a.end, b.start), orient(a.start, a.end, b.end)} :
        o[1] # 0 /\ Collinear(o)

(* C12 as claimed: intersects returns true exactly when the two closed     *)
(* segments share at least one point.                                      *)
C12_TrueIffSharedPoint ==
    geo.call = "intersects" => (geo.result <=> SharePoint(geo.a, geo.b))

(* C12: intersects returns true whenever the two closed segments share a   *)
(* point; on segments with integer endpoints it returns true exactly then  *)
(* (true on the five crossing cases, false on the three disjoint ones);    *)
(* it returns true for segments without a common point only when an        *)
(* endpoint that is not collinear with the other segment has an            *)
(* orientation below 1e-9 in magnitude.                                    *)
C12_TrueIffSharedPointUpToTolerance ==
    geo.call = "intersects" =>
        /\ SharePoint(geo.a, geo.b) => geo.result
        /\ (geo.a \in GridSegments(One) /\ geo.b \in GridSegments(One)) =>
               (geo.result <=> SharePoint(geo.a, geo.b))
        /\ <<geo.a, geo.b>> \in CrossingCases => geo.result
        /\ <<geo.a, geo.b>> \in DisjointCases => ~geo.result
        /\ (geo.result /\ ~SharePoint(geo.a, geo.b)) => NearCollinear(geo.a, geo.b)

(* The partial collinear overlap of the tests, found to intersect. *)
C12_Witness ==
    /\ geo.call = "intersects"
    /\ <<geo.a, geo.b>> = <<Seg(0, 0, 2, 0), Seg(1, 0, 3, 0)>>
    /\ geo.result

-----------------------------------------------------------------------------
(* Symmetry of the T-junction seed *)

(* The T-junction seed with its T-junction vertex at height z and nothing else changed. *)
JunctionLifted(m, z) ==
    \E j \in DOMAIN new_t_junction.vertices :
        /\ new_t_junction.vertices[j].is_t_junction
        /\ m = [new_t_junction EXCEPT !.vertices[j].geometry[3] = z]

(* The z of the sample at the centre of the other right-hand face. *)
MirrorZ(m, f) ==
    CentreSample(m, 3 - f, center(add_face(BoundsDefault, m, 3 - f).val), knot_vectors(m)).val

(* C13: on the T-junction seed with the T-junction vertex lifted to z =     *)
(* 0.5, the samples at the centre (1.5, 0.5) of face 1 and at the centre    *)
(* (1.5, 1.5) of face 2 exist and have the same z.                          *)
C13_MirrorSymmetric ==
    (sample.val # Empty /\ JunctionLifted(mesh, Half)) =>
        /\ sample.at = <<R(3, 2), IF sample.face = 1 THEN Half ELSE R(3, 2)>>
        /\ sample.val.tag = "some"
        /\ MirrorZ(mesh, sample.face).tag = "some"
        /\ MirrorZ(mesh, sample.face).val[3] = sample.val.val[3]

-----------------------------------------------------------------------------
(* Analysis suitability *)

(* The directions <<axis, positive>> in which vertex v has no neighbour. *)
MissingDirections(m, v) ==
    {d \in {"S", "T"} \X BOOLEAN : find_next_vertex_in_direction(m, v, d[1], d[2]).tag = "none"}

(* The T-junction v points along axis: the one edge it lacks runs along axis. *)
PointsAlong(m, v, axis) ==
    /\ m.vertices[v].is_t_junction
    /\ Cardinality(MissingDirections(m, v)) = 1
    /\ \E d \in MissingDirections(m, v) : d[1] = axis

(* The extension of v along axis: from v across the face it points into. *)
ExtensionOf(m, v, axis) ==
    Extension(m.vertices[v].uv, axis,
              find_face_intersection(m, v, axis,
                                     (CHOOSE d \in MissingDirections(m, v) : TRUE)[2]).val)

ExtensionsCross(m) ==
    \E a, b \in DOMAIN m.vertices :
        /\ PointsAlong(m, a, "S")
        /\ PointsAlong(m, b, "T")
        /\ SharePoint(ExtensionOf(m, a, "S"), ExtensionOf(m, b, "T"))

(* C14: validate_asts returns true if and only if no extension of a        *)
(* T-junction pointing along S intersects an extension of a T-junction     *)
(* pointing along T: true for the rounded cube, which has no T-junction,   *)
(* false for a mesh in which two such extensions cross.                    *)
C14_ValidateAsts ==
    (geo.call = "validate_asts" /\ edits = 0) =>
        /\ geo.result = Some(~ExtensionsCross(mesh))
        /\ seed = "rounded_cube" => geo.result = Some(TRUE)
        /\ seed = "crossing" => geo.result = Some(FALSE)


-----------------------------------------------------------------------------
(* Properties of SplitFace *)

Across(direction) == IF direction = "S" THEN "T" ELSE "S"

(* The corners of face f of mesh m, by the face loop. *)
Corners(m, f) == {m.edges[e].origin : e \in {face_edges(m, f).val[i] : i \in 1..Len(face_edges(m, f).val)}}

(* The middle of the face's parametric box in the coordinate named axis. *)
BoxMiddle(m, f, axis) ==
    LET cs == {Coord(m.vertices[v].uv, axis) : v \in Corners(m, f)}
        lo == CHOOSE c \in cs : \A d \in cs : Leq(c, d)
        hi == CHOOSE c \in cs : \A d \in cs : Leq(d, c)
    IN  RMul(RAdd(lo, hi), Half)

(* The boundary edges of face f that the split line crosses strictly. *)
StrictlyCrossed(m, f, direction) ==
    LET mid == BoxMiddle(m, f, Across(direction))
        at(v) == Coord(m.vertices[v].uv, Across(direction))
        fe == face_edges(m, f).val
    IN  {i \in 1..Len(fe) :
            LET a == at(m.edges[fe[i]].origin)
                b == at(m.edges[m.edges[fe[i]].next].origin)
            IN  \/ RLt(a, mid) /\ RLt(mid, b)
                \/ RLt(b, mid) /\ RLt(mid, a)}

(* C15: a SplitFace applied to a face whose split line strictly crosses a  *)
(* number of boundary edges other than 2 leaves the vertex, half-edge and  *)
(* face tables exactly as they were before the call.                       *)
C15_DegenerateSplitIsNoOp ==
    (geo.call = "split_face" /\ Cardinality(StrictlyCrossed(geo.before, geo.face, geo.direction)) # 2)
        => /\ last_result = "ok"
           /\ mesh = geo.before

(* The horizontal split of the pentagon face 0 of the T-junction seed: one *)
(* edge is crossed, and the mesh is the seed still.                        *)
C15_Witness ==
    /\ seed = "t_junction" /\ edits = 1
    /\ geo.call = "split_face" /\ geo.face = 0 /\ geo.direction = "S"
    /\ Cardinality(Corners(geo.before, 0)) = 5
    /\ Cardinality(StrictlyCrossed(geo.before, 0, "S")) = 1
    /\ mesh = new_t_junction

(* C19: a SplitFace applied to a quadrilateral face whose mid-line strictly *)
(* crosses exactly two of its edges adds exactly one face and exactly two  *)
(* vertices, and both new vertices lie on the mid-line: at the middle t of *)
(* the face for direction S, at the middle s for direction T (0.5 on the   *)
(* unit square).                                                           *)
C19_QuadSplit ==
    (/\ geo.call = "split_face"
     /\ Len(face_edges(geo.before, geo.face).val) = 4
     /\ Cardinality(StrictlyCrossed(geo.before, geo.face, geo.direction)) = 2)
        => /\ last_result = "ok"
           /\ TLen(mesh.faces) = TLen(geo.before.faces) + 1
           /\ TLen(mesh.vertices) = TLen(geo.before.vertices) + 2
           /\ \A v \in DOMAIN mesh.vertices \ DOMAIN geo.before.vertices :
                  Coord(mesh.vertices[v].uv, Across(geo.direction))
                      = BoxMiddle(geo.before, geo.face, Across(geo.direction))
           /\ (seed = "unit_square" /\ edits = 1) =>
                  \A v \in {4, 5} : Coord(mesh.vertices[v].uv, Across(geo.direction)) = Half

(* The unit square split horizontally: two faces, six vertices, and        *)
(* vertices 4 and 5 at t = 0.5.                                            *)
C19_Witness ==
    /\ seed = "unit_square" /\ edits = 1
    /\ geo.call = "split_face" /\ geo.face = 0 /\ geo.direction = "S"
    /\ TLen(mesh.faces) = 2 /\ TLen(mesh.vertices) = 6
    /\ mesh.vertices[4].uv.t = Half /\ mesh.vertices[5].uv.t = Half


-----------------------------------------------------------------------------
(* Properties of the simple seed *)

(* Every handle stored in m indexes an entry of the table it refers to. *)
HandlesInRange(m) ==
    /\ \A v \in DOMAIN m.vertices :
           m.vertices[v].outgoing_edge # None => m.vertices[v].outgoing_edge \in DOMAIN m.edges
    /\ \A e \in DOMAIN m.edges :
           /\ m.edges[e].origin \in DOMAIN m.vertices
           /\ m.edges[e].next \in DOMAIN m.edges
           /\ m.edges[e].prev \in DOMAIN m.edges
           /\ m.edges[e].twin # None => m.edges[e].twin \in DOMAIN m.edges
           /\ m.edges[e].face # None => m.edges[e].face \in DOMAIN m.faces
    /\ \A f \in DOMAIN m.faces : m.faces[f].edge \in DOMAIN m.edges

(* C16: the mesh built by new_simple has 8 vertices, 20 half-edges and 3   *)
(* faces, and every handle stored in it indexes an existing table entry;   *)
(* in particular the face handles 0, 1 and 2 of the interior half-edges    *)
(* refer to entries of the face table.                                     *)
C16_SimpleTables ==
    (seed = "simple" /\ Fresh)
        => /\ TLen(mesh.vertices) = 8
           /\ TLen(mesh.edges) = 20
           /\ TLen(mesh.faces) = 3
           /\ {mesh.edges[e].face : e \in DOMAIN mesh.edges} = {0, 1, 2, None}
           /\ HandlesInRange(mesh)


-----------------------------------------------------------------------------
(* Properties of find_edge *)

(* The half-edges that go from u to v: origin u, and a twin with origin v. *)
EdgesFromTo(m, u, v) ==
    {e \in DOMAIN m.edges :
        /\ m.edges[e].origin = u
        /\ m.edges[e].twin # None
        /\ m.edges[m.edges[e].twin].origin = v}

-----------------------------------------------------------------------------
(* Properties of Bounds *)

(* C18: Bounds::area returns the area of the parametric bounding box,      *)
(* (s_max - s_min) * (t_max - t_min), for every bounds value; for the      *)
(* bounding boxes of faces 1 and 2 of the T-junction seed it returns 1.    *)
C18_AreaOfBox ==
    geo.call = "area"
        => /\ geo.result = RMul(RSub(geo.bounds.s[2], geo.bounds.s[1]),
                                RSub(geo.bounds.t[2], geo.bounds.t[1]))
           /\ (seed = "t_junction" /\ geo.face \in {1, 2}) => geo.result = One


-----------------------------------------------------------------------------
(* Properties of ObjWriter *)

(* The number of v lines among the first n lines. *)
VLinesUpTo(obj, n) == Cardinality({i \in 1..n : obj[i][1] = "v"})

(* The o line that opens the block line p belongs to. *)
BlockStart(obj, p) == CHOOSE q \in 1..p : obj[q][1] = "o" /\ \A r \in (q + 1)..p : obj[r][1] # "o"

(* The l line at p of a control-surface block opened at q for mesh m is the *)
(* line of half-edge p - q - 1 - |vertices|; the v line of mesh vertex v of *)
(* that block is line q + 1 + v.                                            *)
LineOfVertex(q, v) == q + 1 + v
EdgeOfLine(m, q, p) == p - q - 1 - TLen(m.vertices)

(* C20: every index on an l line of a control-surface block is the 1-based *)
(* position, counted over all v lines of the whole output, of the v line   *)
(* of the referenced mesh vertex: the mesh-local vertex index plus the     *)
(* number of v lines written before that block plus 1.                     *)
C20_GlobalLineIndices ==
    \A p \in 1..Len(writer.obj) :
        writer.obj[p][1] = "l" =>
            LET q == BlockStart(writer.obj, p)
                m == SeedMesh(writer.obj[q][2])
                e == EdgeOfLine(m, q, p)
                from == m.edges[e].origin
                to == m.edges[m.edges[e].next].origin
            IN  /\ writer.obj[p][2] = VLinesUpTo(writer.obj, LineOfVertex(q, from))
                /\ writer.obj[p][3] = VLinesUpTo(writer.obj, LineOfVertex(q, to))
                /\ writer.obj[p][2] = from + VLinesUpTo(writer.obj, q) + 1
                /\ writer.obj[p][3] = to + VLinesUpTo(writer.obj, q) + 1
                /\ writer.obj[LineOfVertex(q, from)]
                       = <<"v", m.vertices[from].geometry[1], m.vertices[from].geometry[2],
                           m.vertices[from].geometry[3]>>

(* A control surface written after three points and after a triangle block: *)
(* six v lines precede it and its first l line reads 7 8.                   *)
C20_Witness ==
    /\ Blocks = 3
    /\ Len(writer.obj) >= 15
    /\ writer.obj[1][1] = "o" /\ writer.obj[1][2] = "points"
    /\ writer.obj[5][1] = "o" /\ writer.obj[5][2] = "triangles"
    /\ writer.obj[9][1] = "f" /\ writer.obj[9][2] = 4 /\ writer.obj[9][4] = 6
    /\ writer.obj[10][1] = "o" /\ writer.obj[10][2] = "unit_square"
    /\ writer.obj[15][1] = "l" /\ writer.obj[15][2] = 7 /\ writer.obj[15][3] = 8
    /\ writer.vertex_count = 10


-----------------------------------------------------------------------------
(* Properties of the knot rays *)

(* The destination of a half-edge, by its next. *)
Dest(m, e) == m.edges[m.edges[e].next].origin

(* w lies on the ray from v along axis, strictly ahead. *)
Ahead(m, v, w, axis, positive) ==
    /\ OtherCoord(m.vertices[w].uv, axis) = OtherCoord(m.vertices[v].uv, axis)
    /\ IF positive
       THEN RLt(Coord(m.vertices[v].uv, axis), Coord(m.vertices[w].uv, axis))
       ELSE RLt(Coord(m.vertices[w].uv, axis), Coord(m.vertices[v].uv, axis))

(* The destinations of the outgoing half-edges of v aligned with the ray. *)
AlignedNeighbours(m, v, axis, positive) ==
    {Dest(m, e) : e \in {x \in DOMAIN m.edges : m.edges[x].origin = v /\ Ahead(m, v, Dest(m, x), axis, positive)}}

(* The half-edges of the next-loop through e. *)
RECURSIVE LoopThrough(_, _, _)
LoopThrough(m, e, acc) == IF e \in acc THEN acc ELSE LoopThrough(m, m.edges[e].next, acc \cup {e})

(* The bounding half-edges of the faces incident to v. *)
IncidentFaceEdges(m, v) ==
    UNION {LoopThrough(m, e, {}) : e \in {x \in DOMAIN m.edges : m.edges[x].origin = v /\ m.edges[x].face # None}}

(* Where half-edge e crosses the line of the ray from v, as a ray-axis     *)
(* coordinate; e is not parallel to the ray.                               *)
CrossingAt(m, v, axis, e) ==
    LET c == OtherCoord(m.vertices[v].uv, axis)
        p1 == m.vertices[m.edges[e].origin].uv
        p2 == m.vertices[Dest(m, e)].uv
    IN  RAdd(Coord(p1, axis),
             RMul(RDiv(RSub(c, OtherCoord(p1, axis)), RSub(OtherCoord(p2, axis), OtherCoord(p1, axis))),
                  RSub(Coord(p2, axis), Coord(p1, axis))))

(* The ray-axis coordinates, strictly ahead of v, at which the ray crosses *)
(* a bounding edge of a face incident to v.                                *)
Crossings(m, v, axis, positive) ==
    LET c == OtherCoord(m.vertices[v].uv, axis)
        x0 == Coord(m.vertices[v].uv, axis)
        spans(e) == LET a == OtherCoord(m.vertices[m.edges[e].origin].uv, axis)
                        b == OtherCoord(m.vertices[Dest(m, e)].uv, axis)
                    IN  a # b /\ Leq(RMin(a, b), c) /\ Leq(c, RMax(a, b))
    IN  {x \in {CrossingAt(m, v, axis, e) : e \in {y \in IncidentFaceEdges(m, v) : spans(y)}} :
            IF positive THEN RLt(x0, x) ELSE RLt(x, x0)}

Nearest(xs, positive) ==
    CHOOSE x \in xs : \A y \in xs : IF positive THEN Leq(x, y) ELSE Leq(y, x)

(* The ray from v stops for want of an aligned edge at w, where a face of   *)
(* w lies ahead.                                                            *)
StopsAtJunction(m, w, axis, positive) ==
    /\ AlignedNeighbours(m, w, axis, positive) = {}
    /\ Crossings(m, w, axis, positive) # {}

(* What C21 expects of the ray from v: the crossing twice when v itself is *)
(* the junction, the neighbour's coordinate and the crossing when the      *)
(* neighbour is.                                                           *)
JunctionRay(m, v, axis, positive, result) ==
    /\ StopsAtJunction(m, v, axis, positive) =>
           result = Some(<<Nearest(Crossings(m, v, axis, positive), positive),
                           Nearest(Crossings(m, v, axis, positive), positive)>>)
    /\ \A w \in AlignedNeighbours(m, v, axis, positive) :
           (AlignedNeighbours(m, v, axis, positive) = {w} /\ StopsAtJunction(m, w, axis, positive)) =>
               result = Some(<<Coord(m.vertices[w].uv, axis),
                               Nearest(Crossings(m, w, axis, positive), positive)>>)

(* C21: when a knot ray reaches a vertex without an outgoing edge aligned   *)
(* with the ray, the next knot is the ray-axis coordinate of the nearest    *)
(* point strictly ahead where the ray crosses a bounding edge of a face     *)
(* incident to that vertex, and the remaining slot repeats it; the -S ray   *)
(* of vertex 3 of the T-junction seed yields [0, 0] and the +T ray of       *)
(* vertex 4 of the Simple seed yields [1, 1].                               *)
C21_FaceIntersectionKnot ==
    geo.call = "trace_knots" =>
        /\ JunctionRay(mesh, geo.v, geo.axis, geo.positive, geo.result)
        /\ (seed = "t_junction" /\ geo.v = 3 /\ geo.axis = "S" /\ ~geo.positive)
               => geo.result = Some(<<Zero, Zero>>)
        /\ (seed = "simple" /\ geo.v = 4 /\ geo.axis = "T" /\ geo.positive)
               => geo.result = Some(<<One, One>>)


-----------------------------------------------------------------------------
(* Properties of the knot vectors *)

(* The collapse C22 describes for one axis: c the vertex's coordinate, neg  *)
(* and pos the knots of the two rays, nearest first.                        *)
MirrorCollapse(k, c, neg, pos) ==
    /\ (neg[1] = c /\ neg[2] = c) => k = <<c, c, c, c, pos[1]>>
    /\ (pos[1] = c /\ pos[2] = c /\ ~(neg[1] = c /\ neg[2] = c)) => k = <<neg[1], c, c, c, c>>

(* C22: the boundary collapse of infer_local_knots is mirror-symmetric:     *)
(* when both negative-direction knots equal the vertex's coordinate s0 the  *)
(* vector is [s0, s0, s0, s0, S+[0]], and when both positive-direction      *)
(* knots equal s0 it is [S-[0], s0, s0, s0, s0], S-[0] the nearest          *)
(* negative-direction knot; likewise for T.                                 *)
C22_MirrorCollapse ==
    (geo.call = "infer_local_knots" /\ IsSome(geo.result)) =>
        /\ MirrorCollapse(geo.result.val[1], mesh.vertices[geo.v].uv.s,
                          trace_knots(mesh, geo.v, "S", FALSE).val, trace_knots(mesh, geo.v, "S", TRUE).val)
        /\ MirrorCollapse(geo.result.val[2], mesh.vertices[geo.v].uv.t,
                          trace_knots(mesh, geo.v, "T", FALSE).val, trace_knots(mesh, geo.v, "T", TRUE).val)


(* The vertices the ray from v reaches by edge-following steps, in order. *)
RECURSIVE RayVertices(_, _, _, _, _)
RayVertices(m, v, axis, positive, left) ==
    IF left = 0 \/ ~IsSome(find_next_vertex_in_direction(m, v, axis, positive)) THEN <<>>
    ELSE <<find_next_vertex_in_direction(m, v, axis, positive).val>>
             \o RayVertices(m, find_next_vertex_in_direction(m, v, axis, positive).val, axis, positive, left - 1)

(* C23: knot inference is infallible and terminates: for every vertex of    *)
(* every seed mesh infer_local_knots returns two knot vectors without       *)
(* error, and each ray yields exactly two knots: the coordinates of the     *)
(* vertices reached by at most two edge-following steps, the remaining      *)
(* slots filled after one pass over the faces incident to the vertex where  *)
(* the ray stopped.                                                         *)
C23_InferenceInfallible ==
    /\ geo.call = "infer_local_knots" =>
           /\ IsSome(geo.result)
           /\ Len(geo.result.val[1]) = 5 /\ Len(geo.result.val[2]) = 5
    /\ geo.call = "trace_knots" =>
           /\ IsSome(geo.result)
           /\ Len(geo.result.val) = 2
           /\ \A i \in 1..2 :
                  i <= Len(RayVertices(mesh, geo.v, geo.axis, geo.positive, TLen(mesh.vertices))) =>
                      geo.result.val[i] = Coord(mesh.vertices[RayVertices(mesh, geo.v, geo.axis, geo.positive, 2)[i]].uv, geo.axis)


(* C24: for every vertex v of every seed mesh (the rounded cube included),  *)
(* every axis and every sign, find_next_vertex_in_direction returns the     *)
(* destination of an outgoing half-edge of v whose parametric delta lies    *)
(* along the axis with the requested sign whenever v has such a half-edge,  *)
(* and none only when v has none.                                           *)
C24_FindNextVertex ==
    geo.call = "find_next_vertex_in_direction" =>
        IF AlignedNeighbours(mesh, geo.v, geo.axis, geo.positive) = {}
        THEN geo.result = NoneV
        ELSE /\ IsSome(geo.result)
             /\ geo.result.val \in AlignedNeighbours(mesh, geo.v, geo.axis, geo.positive)


-----------------------------------------------------------------------------
(* Properties of the meshes SplitFace produces *)

(* The half-edge invariants of C25 on mesh m. *)
WellFormed(m) ==
    /\ \A e \in DOMAIN m.edges : HalfEdgeLinks(m, e)
    /\ \A f \in DOMAIN m.faces : FaceLoop(m, f, face_edges(m, f))
    /\ \A v \in DOMAIN m.vertices :
           /\ m.vertices[v].outgoing_edge \in DOMAIN m.edges
           /\ m.edges[m.vertices[v].outgoing_edge].origin = v

(* The entries of mesh a are found in mesh b under the same handles: each   *)
(* vertex where it was, each half-edge from the same origin, each face.     *)
KeepsHandles(a, b) ==
    /\ \A v \in DOMAIN a.vertices :
           /\ v \in DOMAIN b.vertices
           /\ b.vertices[v].uv = a.vertices[v].uv
           /\ b.vertices[v].geometry = a.vertices[v].geometry
    /\ \A e \in DOMAIN a.edges :
           e \in DOMAIN b.edges /\ b.edges[e].origin = a.edges[e].origin
    /\ DOMAIN a.faces \subseteq DOMAIN b.faces

(* C25: starting from the unit square, after any sequence of SplitFace      *)
(* commands the mesh satisfies the half-edge invariants (next/prev and twin *)
(* are mutually inverse, origin(twin(e)) = origin(next(e)), every face loop *)
(* closes and carries the face's handle, every outgoing edge starts at its  *)
(* vertex) and the entries that existed before a split keep their handles.  *)
C25_SplitKeepsInvariants ==
    seed = "unit_square" =>
        /\ WellFormed(mesh)
        /\ geo.call = "split_face" => KeepsHandles(geo.before, mesh)

(* The unit square split vertically and its left half then horizontally:   *)
(* three faces, eight vertices, and the right half bounded by five edges.  *)
C25_Witness ==
    /\ seed = "unit_square" /\ edits = 2
    /\ geo.call = "split_face" /\ mesh # geo.before
    /\ TLen(mesh.faces) = 3 /\ TLen(mesh.vertices) = 8
    /\ \E f \in DOMAIN mesh.faces : Len(face_edges(mesh, f).val) = 5
    /\ WellFormed(mesh)


-----------------------------------------------------------------------------
(* Properties of the knot intervals of the seeds *)

(* The parametric length of half-edge e along its direction axis. *)
ParametricLength(m, e) ==
    RAbs(RSub(Coord(m.vertices[Dest(m, e)].uv, m.edges[e].direction),
              Coord(m.vertices[m.edges[e].origin].uv, m.edges[e].direction)))

(* C26: for every half-edge of every seed mesh, knot_interval is            *)
(* non-negative and equals the parametric length of the edge: the absolute  *)
(* difference, along the edge's direction axis, between the parametric      *)
(* coordinates of its origin and of its destination.                        *)
C26_IntervalIsLength ==
    Fresh =>
        \A e \in DOMAIN mesh.edges :
            /\ Leq(Zero, mesh.edges[e].knot_interval)
            /\ mesh.edges[e].knot_interval = ParametricLength(mesh, e)


-----------------------------------------------------------------------------
(* Properties of Bounds::interpolate *)

(* Point k of the n equally spaced points from lo to hi, both ends         *)
(* included: lo + k * (hi - lo) / (n - 1).                                 *)
GridCoordinate(lo, hi, k, n) == RAdd(lo, RMul(R(k, n - 1), RSub(hi, lo)))

(* C27: Bounds::interpolate(i, n) maps the row-major index i to the point   *)
(* of the uniform n-by-n grid over the bounds with column i mod n along s   *)
(* and row i div n along t; for n >= 2, i = 0 gives (s_min, t_min) and      *)
(* i = n * n - 1 gives (s_max, t_max) exactly; for n <= 1 it returns the    *)
(* min corner.                                                              *)
(* The grid coordinates are compared where the arithmetic is exact; the    *)
(* corners are compared for f32 as well.                                   *)
C27_InterpolateGrid ==
    geo.call \in {"interpolate", "interpolate_f32"} =>
        LET b == geo.bounds
            n == geo.resolution
        IN  IF n <= 1 THEN geo.result = <<b.s[1], b.t[1]>>
            ELSE /\ geo.call = "interpolate" =>
                        /\ geo.result[1] = GridCoordinate(b.s[1], b.s[2], geo.i % n, n)
                        /\ geo.result[2] = GridCoordinate(b.t[1], b.t[2], geo.i \div n, n)
                 /\ geo.i = 0 => geo.result = <<b.s[1], b.t[1]>>
                 /\ geo.i = n * n - 1 => geo.result = <<b.s[2], b.t[2]>>


(* k[1] <= k[2] <= ... <= k[Len(k)]. *)
NonDecreasing(k) == \A i \in 1..(Len(k) - 1) : Leq(k[i], k[i + 1])

-----------------------------------------------------------------------------
(* Properties of Segment::intersects with a fixed-point scalar *)

(* C29: with a fixed-point scalar type (I10F22) Segment::intersects gives   *)
(* the same answers as with f64 on segments whose coordinates are exactly   *)
(* representable in both types; in particular identical segments, a         *)
(* T-touch, a shared endpoint and a collinear overlap return true.          *)
C29_FixedAgreesWithFloat ==
    geo.call = "intersects_fixed" => geo.result = intersects(geo.a, geo.b)


-----------------------------------------------------------------------------
(* Properties of Tessellate at resolution 0 *)

(* C30: Tessellate{resolution: 0} applied to any mesh returns the empty     *)
(* sequence without an arithmetic error: no unsigned subtraction            *)
(* resolution - 1 underflows and no grid sample is evaluated.               *)
C30_ZeroResolutionIsEmpty ==
    /\ tess.status # "overflow"
    /\ (tess.status = "running" /\ tess.resolution = 0) =>
           /\ tess.pending = {}
           /\ "denom" \in DOMAIN tess => tess.denom.tag # "wrapped"
    /\ (IsSome(output) /\ output.val.resolution = 0) => output.val.points = <<>>

=============================================================================
